---- MODULE Spec2Model ----
(***************************************************************************)
(* A model of the AutoGen / Claude-Code integration scripts:               *)
(*   - utils/helpers.py                 async_retry                        *)
(*   - aws_deployment/lambda_autogen.py lambda_handler and its workflows   *)
(*   - studio/auto_sync_to_studio.py    SyncCache, AutoGenStudioSync       *)
(* Each subsystem has its own specification (SpecRetry, SpecLambda, ...);  *)
(* the variables of the other subsystems stay at their initial value.      *)
(***************************************************************************)
EXTENDS Integers, Sequences, FiniteSets, Bags, TLC

\* ------------------------------------------------------------------ bounds
MaxAttempts == 3
MaxDelay == 2
MaxBackoff == 3
NumFiles == 2
MaxContent == 2
NumBatch == 6
NumParticipants == 1
MaxRuns == 2
MaxAdded == 103

\* Python's None
None == "None"

RECURSIVE Pow(_, _)
\* b ** n  (helpers.py line 73)
Pow(b, n) == IF n = 0 THEN 1 ELSE b * Pow(b, n - 1)

VARIABLES
    \* --- async_retry(max_attempts, delay, backoff)(func)(*args)
    max_attempts,   \* decorator argument
    delay,          \* decorator argument (time units)
    backoff,        \* decorator argument
    attempt,        \* loop variable of "for attempt in range(max_attempts)"
    last_error,     \* local last_error
    calls,          \* the invocations of func made so far, with their outcome
    sleeps,         \* the arguments of the asyncio.sleep calls made so far
    retry_pc,       \* "try" | "sleep" | "done"
    retry_out,      \* how the wrapper ended: return value or raised exception
    \* --- lambda_handler(event, context)
    event,          \* the Lambda event: action, task, agent_type, pipeline
    wrapper_url,    \* what CLAUDE_WRAPPER_URL / the SSM parameter yields
    auth_secret,    \* what Secrets Manager yields for the auth secret
    lam_pc,         \* "start" | "single" | "pipeline" | "done"
    model_clients,  \* number of OpenAIChatCompletionClient objects created
    agent_calls,    \* the on_messages calls made so far: agent, input, outcome
    results,        \* local results of run_multi_agent_pipeline
    current_input,  \* local current_input of run_multi_agent_pipeline
    response,       \* how lambda_handler ended
    \* --- SyncCache and the files it hashes
    files,          \* path -> content of the file, or Unreadable
    cache,          \* SyncCache.cache: a dict path -> hash
    cache_file,     \* the dict in SYNC_CACHE_FILE; {} also when the file is missing
    \* --- AutoGen Studio, as the REST API shows it
    studio_models,  \* the "model" strings of the models Studio holds
    studio_agents,  \* the names of the agents Studio holds
    posts,          \* the POST requests sent so far: resource -> name -> count
    \* --- AutoGenStudioSync: run_automated_sync and sync_agents_batch
    run_pc,         \* "health" | "fetch" | "scan" | "sync" | "returned"
    run_result,     \* what run_automated_sync returned
    existing,       \* what get_existing_components returned: models, agents, teams
    scan_pos,       \* position of scan_agent_files in its (pattern, file) loop
    agent_configs,  \* the list of agent configurations
    batch_pc,       \* "ensure" | "tasks" | "done"
    model_id,       \* local model_id of sync_agents_batch
    tasks,          \* the sync_single_agent coroutines handed to gather
    semaphore,      \* the value of asyncio.Semaphore(batch_size)
    sync_results,   \* what sync_agents_batch returned
    metrics,        \* PerformanceMonitor.metrics: the records appended, as a bag
    \* --- ClaudeCodeConfig.get_model_client(max_retries, retry_delay).create(*args)
    max_retries,        \* argument of get_model_client
    retry_delay,        \* argument of get_model_client (time units)
    outcomes,           \* what the underlying create does on its 1st, 2nd, ... call
    create_attempt,     \* loop variable of "for attempt in range(max_retries)"
    create_last_error,  \* local last_error of create_with_retry
    create_calls,       \* the invocations of original_create made so far
    create_sleeps,      \* the arguments of the asyncio.sleep calls made so far
    create_pc,          \* "try" | "sleep" | "done"
    create_out,         \* how create_with_retry ended
    \* --- auto_sync_to_studio.main()
    args,           \* argparse's Namespace: analyze, sync, watch
    main_pc,        \* "start" | "running" | "done"
    main_mode,      \* the branch main took: "analyze" | "sync" | "watch" | "usage"
    \* --- register_agents_in_studio.main(), run once or several times
    components,     \* what Studio holds: models, agents, teams, each a list of keys;
                    \* the id of a component is its position in its list
    run_start,      \* components as they were when the current run started
    gallery,        \* rows of the gallery table whose config names VS_Code_Test_Agent
    team_file,      \* whether team.json exists
    participants,   \* the names of team.json's participants, in order
    reg_run,        \* which run of the script this is
    reg_pc,         \* "health" | "model" | "test_agent" | "participants" | "team" | "done"
    reg_model_id,   \* local model_id of main
    agent_ids,      \* local agent_ids of main
    reg_idx,        \* position of "for participant in team_config['participants']"
    reg_posts,      \* the POST requests this run has sent
    gets_ok,        \* every listing GET so far was answered with 200
    reg_last,       \* the last register_* call: what it saw, did and returned
    \* --- sync_monitor_dashboard.MetricsCollector
    system_metrics, \* self.system_metrics
    studio_metrics, \* self.studio_metrics
    system_added,   \* how many SystemMetrics have been added so far
    studio_added,   \* how many StudioMetrics have been added so far
    \* --- scan_agent_files called repeatedly
    scan_returns,   \* what each call returned, and whether the files were left
                    \* alone between the previous return and the call
    quiet,          \* no file was written or removed since the last return
    \* --- PerformanceMonitor on its own
    metrics_list,   \* self.metrics, in order, with the latency of each record
    last_summary,   \* the last get_summary call: the records it saw, what it returned
    \* --- sync_monitor_dashboard.MonitoringDashboard
    running,        \* self.running
    loop_pc,        \* where run() and collect_metrics_loop are
    iteration,      \* how many times the loop body has been entered
    errors,         \* how many times the loop logged "Error in metrics collection loop"
    \* --- import_claude_team.insert_team_to_db
    db_exists,      \* autogen04202.db exists
    gallery_table,  \* the database has a usable gallery table
    team_rows,      \* committed rows of table team: their ids
    gallery_rows,   \* committed rows of table gallery: the team id each one names
    pending,        \* what the open connection has inserted and not committed
    team_id,        \* local team_id
    insert_pc,      \* the statement insert_team_to_db is at
    insert_result,  \* what insert_team_to_db returned
    rows_before,    \* the committed rows when the current call started
    import_run      \* which run of the script this is

retryVars == <<max_attempts, delay, backoff, attempt, last_error, calls, sleeps,
               retry_pc, retry_out>>

lambdaVars == <<event, wrapper_url, auth_secret, lam_pc, model_clients, agent_calls,
                results, current_input, response>>

cacheVars == <<files, cache, cache_file>>

studioVars == <<studio_models, studio_agents, posts>>

syncVars == <<run_pc, run_result, existing, scan_pos, agent_configs, batch_pc, model_id,
              tasks, semaphore, sync_results, metrics>>

createVars == <<max_retries, retry_delay, outcomes, create_attempt, create_last_error,
                create_calls, create_sleeps, create_pc, create_out>>

\* the variables of the subsystems introduced further down
mainVars == <<args, main_pc, main_mode>>

regVars == <<components, run_start, gallery, team_file, participants, reg_run, reg_pc, reg_model_id,
             agent_ids, reg_idx, reg_posts, gets_ok, reg_last>>

collectorVars == <<system_metrics, studio_metrics, system_added, studio_added>>

scanVars == <<scan_returns, quiet>>

monitorVars == <<metrics_list, last_summary>>

dashVars == <<running, loop_pc, iteration, errors>>

importVars == <<db_exists, gallery_table, team_rows, gallery_rows, pending, team_id,
                insert_pc, insert_result, rows_before, import_run>>

laterVars == <<scanVars, monitorVars, dashVars, importVars>>

\* the subsystems declared before scanVars
earlyVars == <<retryVars, lambdaVars, cacheVars, studioVars, syncVars, createVars, mainVars,
               regVars, collectorVars>>

extraVars == <<createVars, mainVars, regVars, collectorVars, laterVars>>

vars == <<retryVars, lambdaVars, cacheVars, studioVars, syncVars, extraVars>>

\* what the actions of one subsystem leave alone
notRetryVars == <<lambdaVars, cacheVars, studioVars, syncVars, extraVars>>
notLambdaVars == <<retryVars, cacheVars, studioVars, syncVars, extraVars>>
notCacheVars == <<retryVars, lambdaVars, studioVars, syncVars, extraVars>>
notSyncVars == <<retryVars, lambdaVars, extraVars>>
notCreateVars == <<retryVars, lambdaVars, cacheVars, studioVars, syncVars, mainVars,
                   regVars, collectorVars, laterVars>>
notMainVars == <<retryVars, lambdaVars, createVars, regVars, collectorVars, laterVars>>
notRegVars == <<retryVars, lambdaVars, cacheVars, studioVars, syncVars, createVars,
                mainVars, collectorVars, laterVars>>
notCollectorVars == <<retryVars, lambdaVars, cacheVars, studioVars, syncVars, createVars,
                      mainVars, regVars, laterVars>>
notScanVars == <<retryVars, lambdaVars, createVars, mainVars, regVars, collectorVars,
                 monitorVars, dashVars, importVars>>
notMonitorVars == <<earlyVars, scanVars, dashVars, importVars>>
notDashVars == <<retryVars, lambdaVars, cacheVars, studioVars, syncVars, createVars,
                 mainVars, regVars, scanVars, monitorVars, importVars>>
notImportVars == <<earlyVars, scanVars, monitorVars, dashVars>>

\* the subsystems at rest, for the specifications that do not run them
IdleRetryVars ==
    /\ max_attempts = 0
    /\ delay = 1
    /\ backoff = 1
    /\ attempt = 0
    /\ last_error = None
    /\ calls = <<>>
    /\ sleeps = <<>>
    /\ retry_pc = "idle"
    /\ retry_out = [kind |-> "running"]

IdleLambdaVars ==
    /\ event = [action |-> "absent", task |-> "absent", agent_type |-> "absent",
                pipeline |-> "absent"]
    /\ wrapper_url = "ok"
    /\ auth_secret = "ok"
    /\ lam_pc = "idle"
    /\ model_clients = 0
    /\ agent_calls = <<>>
    /\ results = <<>>
    /\ current_input = [kind |-> "None"]
    /\ response = [kind |-> "running"]

IdleCacheVars ==
    /\ files = [f \in 1..NumFiles |-> 0]
    /\ cache = <<>>
    /\ cache_file = <<>>

IdleSyncVars ==
    /\ studio_models = {}
    /\ studio_agents = {}
    /\ posts = [models |-> <<>>, agents |-> <<>>]
    /\ run_pc = "idle"
    /\ run_result = [kind |-> "running"]
    /\ existing = [models |-> <<>>, agents |-> <<>>, teams |-> <<>>]
    /\ scan_pos = 0
    /\ agent_configs = <<>>
    /\ batch_pc = "idle"
    /\ model_id = None
    /\ tasks = <<>>
    /\ semaphore = 0
    /\ sync_results = <<>>
    /\ metrics = EmptyBag

IdleCreateVars ==
    /\ max_retries = 0
    /\ retry_delay = 1
    /\ outcomes = <<>>
    /\ create_attempt = 0
    /\ create_last_error = None
    /\ create_calls = <<>>
    /\ create_sleeps = <<>>
    /\ create_pc = "idle"
    /\ create_out = [kind |-> "running"]

IdleMainVars ==
    /\ args = [analyze |-> FALSE, sync |-> FALSE, watch |-> FALSE]
    /\ main_pc = "idle"
    /\ main_mode = "none"

\* a register_* call that has not happened
NoCall == [resource |-> "none", key |-> "none", get |-> 0, present |-> FALSE,
           posted |-> FALSE, id |-> 0]

IdleRegVars ==
    /\ components = [models |-> <<>>, agents |-> <<>>, teams |-> <<>>]
    /\ run_start = components
    /\ gallery = 0
    /\ team_file = FALSE
    /\ participants = <<>>
    /\ reg_run = 0
    /\ reg_pc = "idle"
    /\ reg_model_id = 0
    /\ agent_ids = <<>>
    /\ reg_idx = 0
    /\ reg_posts = 0
    /\ gets_ok = TRUE
    /\ reg_last = NoCall

\* MetricsCollector.__init__
IdleCollectorVars ==
    /\ system_metrics = <<>>
    /\ studio_metrics = <<>>
    /\ system_added = 0
    /\ studio_added = 0

IdleScanVars ==
    /\ scan_returns = <<>>
    /\ quiet = TRUE

IdleMonitorVars ==
    /\ metrics_list = <<>>
    /\ last_summary = [called |-> FALSE]

IdleDashVars ==
    /\ running = FALSE
    /\ loop_pc = "idle"
    /\ iteration = 0
    /\ errors = 0

IdleImportVars ==
    /\ db_exists = FALSE
    /\ gallery_table = FALSE
    /\ team_rows = <<>>
    /\ gallery_rows = <<>>
    /\ pending = [team |-> <<>>, gallery |-> <<>>]
    /\ team_id = 0
    /\ insert_pc = "idle"
    /\ insert_result = FALSE
    /\ rows_before = [team |-> <<>>, gallery |-> <<>>]
    /\ import_run = 0

IdleLaterVars == IdleScanVars /\ IdleMonitorVars /\ IdleDashVars /\ IdleImportVars

IdleEarlyVars ==
    /\ IdleRetryVars /\ IdleLambdaVars /\ IdleCacheVars /\ IdleSyncVars /\ IdleCreateVars
    /\ IdleMainVars /\ IdleRegVars /\ IdleCollectorVars

IdleExtraVars ==
    IdleCreateVars /\ IdleMainVars /\ IdleRegVars /\ IdleCollectorVars /\ IdleLaterVars

\* ------------------------------------------------ utils/helpers.py async_retry

\* what func may return, and the exceptions (subclasses of Exception) it may raise
Values == {"v1", "v2"}
Errors == {"e1", "e2"}

InitRetryVars ==
    /\ max_attempts \in 0..MaxAttempts
    /\ delay \in 1..MaxDelay
    /\ backoff \in 1..MaxBackoff
    /\ attempt = 0
    /\ last_error = None
    /\ calls = <<>>
    /\ sleeps = <<>>
    /\ retry_pc = "try"
    /\ retry_out = [kind |-> "running"]

\* "for attempt in range(max_attempts)": the loop body runs for this attempt
InRangeOffByOne == attempt <= max_attempts
InRange == attempt < max_attempts

\* "if attempt < max_attempts - 1"
ShouldSleepAlways == TRUE
ShouldSleep == attempt < max_attempts - 1

\* "wait_time = delay * (backoff ** attempt)"
wait_time_linear == delay * backoff * attempt
wait_time == delay * Pow(backoff, attempt)

\* "return await func(*args, **kwargs)": func returns v
RetryCallReturns(v) ==
    /\ retry_pc = "try"
    /\ InRange
    /\ calls' = Append(calls, [ok |-> TRUE, what |-> v])
    /\ retry_out' = [kind |-> "return", value |-> v]
    /\ retry_pc' = "done"
    /\ UNCHANGED <<max_attempts, delay, backoff, attempt, last_error, sleeps>>
    /\ UNCHANGED notRetryVars

\* func raises e: "except Exception as e: last_error = e", then the branch on attempt
RetryCallRaises(e) ==
    /\ retry_pc = "try"
    /\ InRange
    /\ calls' = Append(calls, [ok |-> FALSE, what |-> e])
    /\ last_error' = e
    /\ IF ShouldSleep
         THEN /\ retry_pc' = "sleep"
              /\ attempt' = attempt
         ELSE /\ retry_pc' = "try"
              /\ attempt' = attempt + 1
    /\ UNCHANGED <<max_attempts, delay, backoff, sleeps, retry_out>>
    /\ UNCHANGED notRetryVars

\* "await asyncio.sleep(wait_time)", then the next iteration
RetrySleep ==
    /\ retry_pc = "sleep"
    /\ sleeps' = Append(sleeps, wait_time)
    /\ attempt' = attempt + 1
    /\ retry_pc' = "try"
    /\ UNCHANGED <<max_attempts, delay, backoff, last_error, calls, retry_out>>
    /\ UNCHANGED notRetryVars

\* the loop is exhausted: "raise last_error" (raise None is a TypeError)
RetryRaiseLast ==
    /\ retry_pc = "try"
    /\ ~InRange
    /\ retry_out' = IF last_error = None
                      THEN [kind |-> "raise", exc |-> "TypeError"]
                      ELSE [kind |-> "raise", exc |-> last_error]
    /\ retry_pc' = "done"
    /\ UNCHANGED <<max_attempts, delay, backoff, attempt, last_error, calls, sleeps>>
    /\ UNCHANGED notRetryVars

NextRetry ==
    \/ \E v \in Values : RetryCallReturns(v)
    \/ \E e \in Errors : RetryCallRaises(e)
    \/ RetrySleep
    \/ RetryRaiseLast

InitRetry == InitRetryVars /\ IdleLambdaVars /\ IdleCacheVars /\ IdleSyncVars /\ IdleExtraVars

SpecRetry == InitRetry /\ [][NextRetry]_vars

\* ------------------------------------------------------------ claims: retry

Failed(k) == ~calls[k].ok

\* C1: for max_attempts >= 1 the wrapped function is invoked at most
\* max_attempts times; the wrapper returns the value of the first successful
\* attempt, which is the last invocation made; and it raises only after
\* max_attempts failed attempts, raising the exception of the last one.
C1_AtMostMaxAttempts ==
    max_attempts >= 1 =>
        /\ Len(calls) <= max_attempts
        /\ \A k \in 1..(Len(calls) - 1) : Failed(k)
        /\ retry_out.kind = "return" =>
              /\ calls[Len(calls)] = [ok |-> TRUE, what |-> retry_out.value]
        /\ retry_out.kind = "raise" =>
              /\ Len(calls) = max_attempts
              /\ Failed(max_attempts)
              /\ retry_out.exc = calls[max_attempts].what
        /\ (retry_pc = "done") = (retry_out.kind # "running")
        /\ (Len(calls) > 0 /\ calls[Len(calls)].ok) => retry_out.kind = "return"

\* all three attempts failed, with different exceptions, and the last was raised
C1_Witness ==
    /\ max_attempts = 3
    /\ retry_out.kind = "raise"
    /\ Len(calls) = 3
    /\ calls[1].what = "e2"
    /\ calls[3].what = "e1"
    /\ retry_out.exc = "e1"

\* C2: the k-th sleep (k = 0, 1, ...) waits delay * backoff^k; there is one
\* sleep per failed attempt except the final one, none after a success, and a
\* call that exhausts its attempts has slept exactly max_attempts - 1 times.
C2_BackoffSchedule ==
    max_attempts >= 1 =>
        /\ \A k \in 1..Len(sleeps) : sleeps[k] = delay * Pow(backoff, k - 1)
        /\ Len(sleeps) <= max_attempts - 1
        /\ retry_pc = "sleep" => Len(sleeps) = Len(calls) - 1
        /\ retry_pc = "try" /\ InRange => Len(sleeps) = Len(calls)
        /\ retry_out.kind = "return" => Len(sleeps) = Len(calls) - 1
        /\ retry_out.kind = "raise" => Len(sleeps) = max_attempts - 1

\* three failures, two sleeps of delay and delay * backoff
C2_Witness ==
    /\ max_attempts = 3
    /\ delay = 2
    /\ backoff = 3
    /\ retry_out.kind = "raise"
    /\ sleeps = <<2, 6>>

\* ------------------------------ config.py ClaudeCodeConfig.get_model_client
\*
\* create_with_retry, the wrapper installed on client.create, run on the same
\* underlying create as an async_retry(max_retries, retry_delay, 2) wrapper:
\* outcomes[k] is what the k-th invocation of the underlying create does.

Outcomes ==
    [ok : {TRUE}, what : Values] \cup [ok : {FALSE}, what : Errors]

InitCreateVars ==
    /\ max_retries \in 0..MaxAttempts
    /\ retry_delay \in 1..MaxDelay
    /\ outcomes \in [1..MaxAttempts -> Outcomes]
    /\ create_attempt = 0
    /\ create_last_error = None
    /\ create_calls = <<>>
    /\ create_sleeps = <<>>
    /\ create_pc = "try"
    /\ create_out = [kind |-> "running"]

\* "for attempt in range(max_retries)"
CreateInRange == create_attempt < max_retries

\* "if attempt < max_retries - 1"
CreateShouldSleep == create_attempt < max_retries - 1

\* "wait_time = retry_delay * (2 ** attempt)"
create_wait_time_constant == retry_delay
create_wait_time == retry_delay * Pow(2, create_attempt)

\* what the next invocation of original_create does
CreateOutcome == outcomes[Len(create_calls) + 1]

\* "return await original_create(*args, **kwargs)": it returns
CreateCallReturns ==
    /\ create_pc = "try"
    /\ CreateInRange
    /\ CreateOutcome.ok
    /\ create_calls' = Append(create_calls, CreateOutcome)
    /\ create_out' = [kind |-> "return", value |-> CreateOutcome.what]
    /\ create_pc' = "done"
    /\ UNCHANGED <<max_retries, retry_delay, outcomes, create_attempt, create_last_error,
                   create_sleeps>>
    /\ UNCHANGED notCreateVars

\* it raises: "except Exception as e: last_error = e", then the branch on attempt
CreateCallRaises ==
    /\ create_pc = "try"
    /\ CreateInRange
    /\ ~CreateOutcome.ok
    /\ create_calls' = Append(create_calls, CreateOutcome)
    /\ create_last_error' = CreateOutcome.what
    /\ IF CreateShouldSleep
         THEN /\ create_pc' = "sleep"
              /\ create_attempt' = create_attempt
         ELSE /\ create_pc' = "try"
              /\ create_attempt' = create_attempt + 1
    /\ UNCHANGED <<max_retries, retry_delay, outcomes, create_sleeps, create_out>>
    /\ UNCHANGED notCreateVars

\* "await asyncio.sleep(wait_time)", then the next iteration
CreateSleep ==
    /\ create_pc = "sleep"
    /\ create_sleeps' = Append(create_sleeps, create_wait_time)
    /\ create_attempt' = create_attempt + 1
    /\ create_pc' = "try"
    /\ UNCHANGED <<max_retries, retry_delay, outcomes, create_last_error, create_calls,
                   create_out>>
    /\ UNCHANGED notCreateVars

\* the loop is exhausted: "raise last_error" (raise None is a TypeError)
CreateRaiseLast ==
    /\ create_pc = "try"
    /\ ~CreateInRange
    /\ create_out' = IF create_last_error = None
                       THEN [kind |-> "raise", exc |-> "TypeError"]
                       ELSE [kind |-> "raise", exc |-> create_last_error]
    /\ create_pc' = "done"
    /\ UNCHANGED <<max_retries, retry_delay, outcomes, create_attempt, create_last_error,
                   create_calls, create_sleeps>>
    /\ UNCHANGED notCreateVars

NextCreate ==
    \/ CreateCallReturns
    \/ CreateCallRaises
    \/ CreateSleep
    \/ CreateRaiseLast

\* a step of the async_retry wrapper whose invocation of func, if it makes one,
\* does what the underlying create does on that invocation
RetryOnCreate(step) ==
    /\ step
    /\ Len(calls') > Len(calls) => calls'[Len(calls')] = outcomes[Len(calls')]

NextRetryOnCreate ==
    \/ \E v \in Values : RetryOnCreate(RetryCallReturns(v))
    \/ \E e \in Errors : RetryOnCreate(RetryCallRaises(e))
    \/ RetryOnCreate(RetrySleep)
    \/ RetryOnCreate(RetryRaiseLast)

\* async_retry(max_attempts=max_retries, delay=retry_delay, backoff=2)
InitCreate ==
    /\ InitCreateVars
    /\ max_attempts = max_retries
    /\ delay = retry_delay
    /\ backoff = 2
    /\ attempt = 0
    /\ last_error = None
    /\ calls = <<>>
    /\ sleeps = <<>>
    /\ retry_pc = "try"
    /\ retry_out = [kind |-> "running"]
    /\ IdleLambdaVars /\ IdleCacheVars /\ IdleSyncVars /\ IdleMainVars /\ IdleRegVars
    /\ IdleCollectorVars /\ IdleLaterVars

SpecCreate == InitCreate /\ [][NextCreate \/ NextRetryOnCreate]_vars

\* ----------------------------------------------------- claims: config.py

BothEnded == create_pc = "done" /\ retry_pc = "done"

\* C14: on the same outcomes of the underlying create, create_with_retry and
\* async_retry(max_retries, retry_delay, 2) make the same invocations, sleep
\* the same waits in the same order, and end with the same returned value or
\* the same raised exception.
C14_CreateEquivalentToAsyncRetry ==
    BothEnded =>
        /\ create_calls = calls
        /\ create_sleeps = sleeps
        /\ create_out = retry_out

\* both wrappers failed twice, slept 2 and 4, and returned the third call's value
C14_Witness ==
    /\ BothEnded
    /\ max_retries = 3
    /\ retry_delay = 2
    /\ Len(create_calls) = 3
    /\ create_sleeps = <<2, 4>>
    /\ create_out = [kind |-> "return", value |-> "v2"]
    /\ retry_out = create_out

RaisedByFunc(out, made) ==
    \E k \in 1..Len(made) : made[k] = [ok |-> FALSE, what |-> out.exc]
ReturnedByFunc(out, made) ==
    \E k \in 1..Len(made) : made[k] = [ok |-> TRUE, what |-> out.value]

\* C15: for every attempt cap, 0 included, a call through either wrapper ends
\* by returning a value the wrapped function returned or by raising an
\* exception the wrapped function raised; with a cap of 0 the wrapped
\* function is never invoked.
C15_EndsWithFuncOutcome ==
    /\ retry_out.kind = "return" => ReturnedByFunc(retry_out, calls)
    /\ retry_out.kind = "raise" => RaisedByFunc(retry_out, calls)
    /\ create_out.kind = "return" => ReturnedByFunc(create_out, create_calls)
    /\ create_out.kind = "raise" => RaisedByFunc(create_out, create_calls)
    /\ max_attempts = 0 => calls = <<>>
    /\ max_retries = 0 => create_calls = <<>>

\* ------------------------------------- aws_deployment/lambda_autogen.py

\* the values an event may carry; "absent" is a key the event does not hold,
\* "null" a JSON null, "empty" the string "", "text" a non-empty string
Actions == {"absent", "single_agent", "multi_agent", "other"}
Tasks == {"absent", "null", "empty", "text"}
AgentTypes == {"absent", "coder", "other"}
Pipelines == {"absent", "research", "development", "review", "other"}
\* what the configuration sources yield
UrlStates == {"ok", "empty", "error"}
SecretStates == {"ok", "no_token", "error"}
\* what an agent may answer, and the exceptions on_messages may raise
Outputs == {"o1", "o2"}
AgentErrors == {"x1", "x2"}

InitLambdaVars ==
    /\ event \in [action : Actions, task : Tasks, agent_type : AgentTypes,
                  pipeline : Pipelines]
    /\ wrapper_url \in UrlStates
    /\ auth_secret \in SecretStates
    /\ lam_pc = "start"
    /\ model_clients = 0
    /\ agent_calls = <<>>
    /\ results = <<>>
    /\ current_input = [kind |-> "None"]
    /\ response = [kind |-> "running"]

\* json.dumps(x): the string that encodes x
JsonDumps(x) == [json |-> x]

\* event.get('action', 'single_agent')
EventActionNoDefault == IF event.action = "absent" THEN None ELSE event.action
EventAction == IF event.action = "absent" THEN "single_agent" ELSE event.action

\* event.get('task'), and "not task"
EventTask == IF event.task \in {"absent", "null"} THEN None ELSE event.task
NotTaskOnlyNone == EventTask = None
NotTask == EventTask = None \/ EventTask = "empty"

\* event.get('agent_type', 'assistant'), event.get('pipeline', 'research')
EventAgentType == IF event.agent_type = "absent" THEN "assistant" ELSE event.agent_type
EventPipeline == IF event.pipeline = "absent" THEN "research" ELSE event.pipeline

\* agent_configs.get(agent_type, agent_configs["assistant"])["name"]
AgentConfigName(agent_type) ==
    CASE agent_type = "assistant" -> "claude_assistant"
      [] agent_type = "analyst" -> "data_analyst"
      [] agent_type = "coder" -> "code_expert"
      [] agent_type = "writer" -> "content_writer"
      [] OTHER -> "claude_assistant"

\* the agents of the "research" pipeline, in list order
ResearchAgents == <<"researcher", "analyst", "summarizer">>

\* get_model_client(): the exception it raises, or None when it returns a client
GetModelClientError ==
    IF wrapper_url = "error" THEN "ClientError"
    ELSE IF auth_secret = "error" THEN "ClientError"
    ELSE IF wrapper_url = "empty" \/ auth_secret = "no_token" THEN "ValueError"
    ELSE None

\* the handler's "except Exception as e" clause
LambdaExceptPropagates(e) == [kind |-> "raise", exc |-> e]
LambdaExcept(e) ==
    [kind |-> "return", statusCode |-> 500,
     body |-> JsonDumps([error |-> "Internal server error", message |-> e])]

\* "return {'statusCode': 200, 'body': json.dumps(result)}"
LambdaOk(result) == [kind |-> "return", statusCode |-> 200, body |-> JsonDumps(result)]

\* run_single_agent's "except Exception as e": the error dictionary, which the
\* handler returns as a 200
SingleAgentFailureEscapes(e) == LambdaExcept(e)
SingleAgentFailure(e) ==
    LambdaOk([success |-> FALSE, error |-> e, agent |-> AgentConfigName(EventAgentType)])

\* run_multi_agent_pipeline's "except Exception as e" inside the for loop
PipelineFailureDropsPartial(agent, e, partial) ==
    LambdaOk([success |-> FALSE, error |-> <<"Pipeline failed at", agent, e>>,
              partial_results |-> <<>>])
PipelineFailure(agent, e, partial) ==
    LambdaOk([success |-> FALSE, error |-> <<"Pipeline failed at", agent, e>>,
              partial_results |-> partial])

\* "if not task": 400
LambdaMissingTask ==
    /\ lam_pc = "start"
    /\ NotTask
    /\ response' = [kind |-> "return", statusCode |-> 400,
                    body |-> JsonDumps([error |-> "Missing required parameter: task"])]
    /\ lam_pc' = "done"
    /\ UNCHANGED <<event, wrapper_url, auth_secret, model_clients, agent_calls, results,
                   current_input>>
    /\ UNCHANGED notLambdaVars

\* the final else of the dispatch: 400
LambdaUnknownAction ==
    /\ lam_pc = "start"
    /\ ~NotTask
    /\ EventAction \notin {"single_agent", "multi_agent"}
    /\ response' = [kind |-> "return", statusCode |-> 400,
                    body |-> JsonDumps([error |-> <<"Unknown action", EventAction>>])]
    /\ lam_pc' = "done"
    /\ UNCHANGED <<event, wrapper_url, auth_secret, model_clients, agent_calls, results,
                   current_input>>
    /\ UNCHANGED notLambdaVars

\* either workflow starts with get_model_client(), which raises: the handler's except
LambdaConfigFails ==
    /\ lam_pc = "start"
    /\ ~NotTask
    /\ EventAction \in {"single_agent", "multi_agent"}
    /\ GetModelClientError # None
    /\ response' = LambdaExcept(GetModelClientError)
    /\ lam_pc' = "done"
    /\ UNCHANGED <<event, wrapper_url, auth_secret, model_clients, agent_calls, results,
                   current_input>>
    /\ UNCHANGED notLambdaVars

\* run_single_agent up to "await agent.on_messages"
LambdaStartSingle ==
    /\ lam_pc = "start"
    /\ ~NotTask
    /\ EventAction = "single_agent"
    /\ GetModelClientError = None
    /\ model_clients' = model_clients + 1
    /\ lam_pc' = "single"
    /\ UNCHANGED <<event, wrapper_url, auth_secret, agent_calls, results, current_input,
                   response>>
    /\ UNCHANGED notLambdaVars

\* run_single_agent: the agent answers
SingleAgentReturns(o) ==
    /\ lam_pc = "single"
    /\ agent_calls' = Append(agent_calls,
          [agent |-> AgentConfigName(EventAgentType), input |-> [kind |-> "task"],
           ok |-> TRUE, what |-> o])
    /\ response' = LambdaOk([success |-> TRUE, agent |-> AgentConfigName(EventAgentType),
                             response |-> o,
                             usage |-> [prompt_tokens |-> 0, completion_tokens |-> 0]])
    /\ lam_pc' = "done"
    /\ UNCHANGED <<event, wrapper_url, auth_secret, model_clients, results, current_input>>
    /\ UNCHANGED notLambdaVars

\* run_single_agent: "except Exception as e"
SingleAgentRaises(e) ==
    /\ lam_pc = "single"
    /\ agent_calls' = Append(agent_calls,
          [agent |-> AgentConfigName(EventAgentType), input |-> [kind |-> "task"],
           ok |-> FALSE, what |-> e])
    /\ response' = SingleAgentFailure(e)
    /\ lam_pc' = "done"
    /\ UNCHANGED <<event, wrapper_url, auth_secret, model_clients, results, current_input>>
    /\ UNCHANGED notLambdaVars

\* run_multi_agent_pipeline, pipeline == "research", up to the first on_messages
LambdaStartResearch ==
    /\ lam_pc = "start"
    /\ ~NotTask
    /\ EventAction = "multi_agent"
    /\ GetModelClientError = None
    /\ EventPipeline = "research"
    /\ model_clients' = model_clients + 1
    /\ results' = <<>>
    /\ current_input' = [kind |-> "task"]
    /\ lam_pc' = "pipeline"
    /\ UNCHANGED <<event, wrapper_url, auth_secret, agent_calls, response>>
    /\ UNCHANGED notLambdaVars

\* run_multi_agent_pipeline, the else branch: "Unknown pipeline type"
LambdaUnknownPipeline ==
    /\ lam_pc = "start"
    /\ ~NotTask
    /\ EventAction = "multi_agent"
    /\ GetModelClientError = None
    /\ EventPipeline # "research"
    /\ model_clients' = model_clients + 1
    /\ response' = LambdaOk([success |-> FALSE,
                             error |-> <<"Unknown pipeline type", EventPipeline>>])
    /\ lam_pc' = "done"
    /\ UNCHANGED <<event, wrapper_url, auth_secret, agent_calls, results, current_input>>
    /\ UNCHANGED notLambdaVars

\* the agent the pipeline's for loop is at
PipelineAgentLastFirst == ResearchAgents[Len(ResearchAgents) - Len(agent_calls)]
PipelineAgent == ResearchAgents[Len(agent_calls) + 1]

\* one iteration of "for agent in agents" whose on_messages returns o; after the
\* last agent the function returns its success dictionary
PipelineAgentReturns(o) ==
    /\ lam_pc = "pipeline"
    /\ agent_calls' = Append(agent_calls,
          [agent |-> PipelineAgent, input |-> current_input, ok |-> TRUE, what |-> o])
    /\ results' = Append(results, [agent |-> PipelineAgent, output |-> o])
    /\ current_input' = [kind |-> "based_on", content |-> o]
    /\ IF Len(agent_calls') = Len(ResearchAgents)
         THEN /\ response' = LambdaOk([success |-> TRUE, pipeline |-> EventPipeline,
                                       results |-> results',
                                       final_output |-> results'[Len(results')].output])
              /\ lam_pc' = "done"
         ELSE /\ response' = response
              /\ lam_pc' = "pipeline"
    /\ UNCHANGED <<event, wrapper_url, auth_secret, model_clients>>
    /\ UNCHANGED notLambdaVars

\* one iteration whose on_messages raises: "Pipeline failed at <agent>"
PipelineAgentRaises(e) ==
    /\ lam_pc = "pipeline"
    /\ agent_calls' = Append(agent_calls,
          [agent |-> PipelineAgent, input |-> current_input, ok |-> FALSE, what |-> e])
    /\ response' = PipelineFailure(PipelineAgent, e, results)
    /\ lam_pc' = "done"
    /\ UNCHANGED <<event, wrapper_url, auth_secret, model_clients, results, current_input>>
    /\ UNCHANGED notLambdaVars

NextLambda ==
    \/ LambdaMissingTask
    \/ LambdaUnknownAction
    \/ LambdaConfigFails
    \/ LambdaStartSingle
    \/ \E o \in Outputs : SingleAgentReturns(o)
    \/ \E e \in AgentErrors : SingleAgentRaises(e)
    \/ LambdaStartResearch
    \/ LambdaUnknownPipeline
    \/ \E o \in Outputs : PipelineAgentReturns(o)
    \/ \E e \in AgentErrors : PipelineAgentRaises(e)

InitLambda == InitLambdaVars /\ IdleRetryVars /\ IdleCacheVars /\ IdleSyncVars /\ IdleExtraVars

SpecLambda == InitLambda /\ [][NextLambda]_vars

\* ----------------------------------------------------------- claims: lambda

Returned == lam_pc = "done"
TaskMissingOrEmpty == event.task \in {"absent", "null", "empty"}
ActionGiven == IF event.action = "absent" THEN "single_agent" ELSE event.action
ActionNeither == ActionGiven \notin {"single_agent", "multi_agent"}
ValidRequest == ~TaskMissingOrEmpty /\ ~ActionNeither
ConfigBroken == wrapper_url # "ok" \/ auth_secret # "ok"
SomeAgentRaised == \E k \in 1..Len(agent_calls) : ~agent_calls[k].ok

\* C3: lambda_handler always ends by returning statusCode 200, 400 or 500 with
\* a JSON-string body and never by propagating an exception: a failing
\* configuration lookup or client creation ends as 500, a failing agent call as
\* 500 or as a body with success = false.
C3_AlwaysAResponse ==
    /\ response.kind \in {"running", "return"}
    /\ Returned =>
          /\ response.kind = "return"
          /\ response.statusCode \in {200, 400, 500}
          /\ DOMAIN response.body = {"json"}
          /\ (ValidRequest /\ ConfigBroken) => response.statusCode = 500
          /\ SomeAgentRaised =>
                \/ response.statusCode = 500
                \/ response.statusCode = 200 /\ response.body.json.success = FALSE

\* a request whose secret holds no token ended as a 500 response
C3_Witness ==
    /\ Returned
    /\ ValidRequest
    /\ wrapper_url = "ok"
    /\ auth_secret = "no_token"
    /\ response.statusCode = 500

\* C4: the handler answers 400 exactly when the task is missing or empty or the
\* action (single_agent when the event has none) is neither single_agent nor
\* multi_agent; in those cases no model client is created and no agent runs;
\* an event with no action runs the single-agent workflow.
C4_BadRequestExactly ==
    /\ (TaskMissingOrEmpty \/ ActionNeither) => model_clients = 0 /\ agent_calls = <<>>
    /\ Returned =>
          /\ (response.statusCode = 400) = (TaskMissingOrEmpty \/ ActionNeither)
          /\ (event.action = "absent" /\ response.statusCode = 200) =>
                /\ Len(agent_calls) = 1
                /\ "agent" \in DOMAIN response.body.json
                /\ agent_calls[1].agent = response.body.json.agent

\* an event with a task and no action ran one single agent and got a 200
C4_Witness ==
    /\ Returned
    /\ event.action = "absent"
    /\ event.task = "text"
    /\ response.statusCode = 200
    /\ Len(agent_calls) = 1
    /\ model_clients = 1

\* C5: for action multi_agent, each documented pipeline value (research,
\* development, review) runs a pipeline: with a working configuration and no
\* failing agent call the body has success = true.
C5_DocumentedPipelinesRun ==
    (/\ Returned
     /\ event.action = "multi_agent"
     /\ event.task = "text"
     /\ event.pipeline \in {"research", "development", "review"}
     /\ ~ConfigBroken
     /\ ~SomeAgentRaised)
    => (response.statusCode = 200 /\ response.body.json.success = TRUE)

\* an exception left run_single_agent or run_multi_agent_pipeline: only
\* get_model_client, called before their try blocks, can raise there
WorkflowRaised == ValidRequest /\ GetModelClientError # None
ResearchRun == ValidRequest /\ EventAction = "multi_agent" /\ EventPipeline = "research"
Body == response.body.json

\* C16: the handler answers 500 exactly when an exception left the workflow
\* coroutine (a failing get_model_client); an agent call that raises in either
\* workflow, and an unknown pipeline name, end as a 200 whose body has
\* success = false.
C16_Status500IffWorkflowRaises ==
    Returned =>
        /\ (response.statusCode = 500) = WorkflowRaised
        /\ SomeAgentRaised => response.statusCode = 200 /\ Body.success = FALSE
        /\ (/\ ValidRequest
            /\ ~WorkflowRaised
            /\ EventAction = "multi_agent"
            /\ EventPipeline # "research")
           => (response.statusCode = 200 /\ Body.success = FALSE)

\* a single agent raised x2 and the handler answered 200 with success = false
C16_Witness ==
    /\ Returned
    /\ EventAction = "single_agent"
    /\ Len(agent_calls) = 1
    /\ agent_calls[1] = [agent |-> "code_expert", input |-> [kind |-> "task"],
                         ok |-> FALSE, what |-> "x2"]
    /\ response.statusCode = 200
    /\ Body = [success |-> FALSE, error |-> "x2", agent |-> "code_expert"]

\* C17: the research pipeline calls researcher, analyst, summarizer in that
\* order, each at most once and one after the other; the researcher gets the
\* task, every later agent an input built from the output of the agent just
\* before it; results lists the outputs in call order; on success final_output
\* is the summarizer's output.
C17_ResearchOrder ==
    ResearchRun =>
        /\ Len(agent_calls) <= Len(ResearchAgents)
        /\ \A k \in 1..Len(agent_calls) :
              /\ agent_calls[k].agent = ResearchAgents[k]
              /\ k = 1 => agent_calls[k].input = [kind |-> "task"]
              /\ k > 1 => /\ agent_calls[k - 1].ok
                          /\ agent_calls[k].input =
                                [kind |-> "based_on", content |-> agent_calls[k - 1].what]
        /\ lam_pc = "pipeline" =>
              results = [k \in 1..Len(agent_calls) |->
                            [agent |-> agent_calls[k].agent, output |-> agent_calls[k].what]]
        /\ (Returned /\ response.statusCode = 200 /\ Body.success) =>
              /\ Len(agent_calls) = 3
              /\ agent_calls[3].agent = "summarizer"
              /\ Body.final_output = agent_calls[3].what
              /\ Body.results = [k \in 1..3 |->
                    [agent |-> ResearchAgents[k], output |-> agent_calls[k].what]]

\* the three agents answered o1, o2, o1 and the pipeline returned the last o1
C17_Witness ==
    /\ Returned
    /\ ResearchRun
    /\ Len(agent_calls) = 3
    /\ agent_calls[1].what = "o1"
    /\ agent_calls[2].what = "o2"
    /\ agent_calls[2].input = [kind |-> "based_on", content |-> "o1"]
    /\ agent_calls[3].what = "o1"
    /\ Body.success
    /\ Body.final_output = "o1"

\* C18: when the k-th agent of the research pipeline raises, it is the last
\* agent called, and the pipeline returns success = false, an error naming
\* that agent, and as partial_results the outputs of the k - 1 agents before
\* it, in order.
C18_FailureStopsPipeline ==
    (ResearchRun /\ SomeAgentRaised) =>
        LET k == Len(agent_calls) IN
        /\ Returned
        /\ ~agent_calls[k].ok
        /\ \A j \in 1..(k - 1) : agent_calls[j].ok
        /\ response.statusCode = 200
        /\ Body.success = FALSE
        /\ Body.error = <<"Pipeline failed at", ResearchAgents[k], agent_calls[k].what>>
        /\ Body.partial_results = [j \in 1..(k - 1) |->
              [agent |-> ResearchAgents[j], output |-> agent_calls[j].what]]

\* the summarizer raised after the researcher and the analyst had answered
C18_Witness ==
    /\ Returned
    /\ ResearchRun
    /\ Len(agent_calls) = 3
    /\ ~agent_calls[3].ok
    /\ Len(Body.partial_results) = 2
    /\ Body.partial_results[1].output = "o2"
    /\ Body.partial_results[2].output = "o1"

\* ------------------------------------ studio/auto_sync_to_studio.py SyncCache

\* the paths the scan can reach, the contents a file may have, and a file
\* that cannot be opened (deleted, or not readable)
Paths == 1..NumFiles
Contents == 0..MaxContent
Unreadable == -1

\* hashlib.md5(content).hexdigest(): a digest, not the content; two contents
\* may share a digest
MD5(content) == (content % MaxContent) + 1
\* the "" that get_file_hash returns when the file cannot be read
EmptyHash == 0

\* SyncCache.get_file_hash
get_file_hash(file_path) ==
    IF files[file_path] = Unreadable THEN EmptyHash ELSE MD5(files[file_path])

\* SyncCache.has_changed: cache.get(file_path) is None for a path never stored,
\* and no hash equals None
has_changed_stored_only(file_path) ==
    file_path \in DOMAIN cache /\ get_file_hash(file_path) # cache[file_path]
has_changed(file_path) ==
    IF file_path \notin DOMAIN cache THEN TRUE
    ELSE get_file_hash(file_path) # cache[file_path]

\* the dict d with d[k] = v
DictSet(d, k, v) == [x \in DOMAIN d \cup {k} |-> IF x = k THEN v ELSE d[x]]

\* an update_file_hash that stores nothing
cache_unchanged(file_path) == cache

\* SyncCache.update_file_hash, as a dict: the new self.cache
cache_updated(file_path) == DictSet(cache, file_path, get_file_hash(file_path))

\* SyncCache.__init__ / _load_cache: {} when there is no cache file
load_cache == cache_file

InitCacheVars ==
    /\ files \in [Paths -> Contents \cup {Unreadable}]
    /\ cache_file = <<>>
    /\ cache = load_cache

\* SyncCache.update_file_hash(file_path): store the hash, then _save_cache
UpdateFileHash(file_path) ==
    /\ cache' = cache_updated(file_path)
    /\ cache_file' = cache'
    /\ UNCHANGED files
    /\ UNCHANGED notCacheVars

\* the environment writes new content to a file
WriteFile(file_path, content) ==
    /\ files[file_path] # content
    /\ files' = [files EXCEPT ![file_path] = content]
    /\ UNCHANGED <<cache, cache_file>>
    /\ UNCHANGED notCacheVars

\* the environment deletes a file, or makes it unreadable
RemoveFile(file_path) ==
    /\ files[file_path] # Unreadable
    /\ files' = [files EXCEPT ![file_path] = Unreadable]
    /\ UNCHANGED <<cache, cache_file>>
    /\ UNCHANGED notCacheVars

NextCache ==
    \/ \E f \in Paths : UpdateFileHash(f)
    \/ \E f \in Paths, c \in Contents : WriteFile(f, c)
    \/ \E f \in Paths : RemoveFile(f)

InitCache == InitCacheVars /\ IdleRetryVars /\ IdleLambdaVars /\ IdleSyncVars /\ IdleExtraVars

SpecCache == InitCache /\ [][NextCache]_vars

\* ------------------------------------------------------------ claims: cache

Stored(f) == f \in DOMAIN cache

\* C8: has_changed(f) is true exactly when f was never stored or the MD5 of its
\* current content differs from the stored value; update_file_hash(f) leaves
\* has_changed(f) false, and it stays false while f's content is not modified.
C8_ChangedIffHashDiffers ==
    [][ /\ \A f \in Paths :
            /\ files[f] # Unreadable =>
                  (has_changed(f) = (~Stored(f) \/ MD5(files[f]) # cache[f]))
            /\ ~Stored(f) => has_changed(f)
            /\ UpdateFileHash(f) => ~has_changed(f)'
            /\ (~has_changed(f) /\ files'[f] = files[f]) => ~has_changed(f)'
      ]_vars

\* a file was stored, then modified to a content with another digest
C8_Witness ==
    /\ Stored(1)
    /\ files[1] = 1
    /\ cache[1] = MD5(2)
    /\ has_changed(1)
    /\ Stored(2)
    /\ ~has_changed(2)

\* --------------------------- studio/auto_sync_to_studio.py AutoGenStudioSync

\* "batch_size = 5"
batch_size == 5

\* the model _ensure_model_exists looks for and registers
claude_model == "claude-opus-4-20250514"
ClaudeModel == [id |-> "m1", name |-> "Claude Opus via Wrapper", model |-> claude_model]
\* the teams Studio holds; this script never changes them
StudioTeams == {"t1"}

\* PerformanceMonitor.end_operation: the record appended to self.metrics
\* an end_operation that starts the list over: self.metrics = [metric]
end_operation_replaces(operation, success) ==
    SetToBag({[operation |-> operation, success |-> success]})

end_operation(operation, success) ==
    metrics (+) SetToBag({[operation |-> operation, success |-> success]})

\* SyncResult(agent_name, 'sync_agent', success, latency_ms, error_message)
SyncResult(agent_name, success, error_message) ==
    [kind |-> "SyncResult", agent_name |-> agent_name, success |-> success,
     error_message |-> error_message]

\* one more POST of name to a resource
Posted(resource, name) ==
    [posts EXCEPT ![resource] =
        DictSet(@, name, IF name \in DOMAIN @ THEN @[name] + 1 ELSE 1)]

\* check_studio_health: GET /health answers 200
HealthOk ==
    /\ run_pc = "health"
    /\ metrics' = end_operation("health_check", TRUE)
    /\ run_pc' = "fetch"
    /\ UNCHANGED <<run_result, existing, scan_pos, agent_configs, batch_pc, model_id,
                   tasks, semaphore, sync_results>>
    /\ UNCHANGED <<cacheVars, studioVars, notSyncVars>>

\* check_studio_health: another status, or the request raises; run_automated_sync
\* returns False
HealthFails(raised) ==
    /\ run_pc = "health"
    /\ metrics' = end_operation("health_check", FALSE)
    /\ run_result' = [kind |-> "return", value |-> FALSE]
    /\ run_pc' = "returned"
    /\ UNCHANGED <<existing, scan_pos, agent_configs, batch_pc, model_id, tasks,
                   semaphore, sync_results>>
    /\ UNCHANGED <<cacheVars, studioVars, notSyncVars>>

\* "async with asyncio.gather(...) as responses": the future gather returns has
\* no __aenter__/__aexit__, so entering the block raises (TypeError, before
\* Python 3.11 AttributeError) and control goes to "except Exception"
GatherIsAsyncContextManager == FALSE

\* what the body of get_existing_components makes of the three responses
ComponentsFrom(status) ==
    [models |-> IF status.models = 200
                  THEN [k \in {m.model : m \in studio_models} |->
                          CHOOSE m \in studio_models : m.model = k]
                  ELSE <<>>,
     agents |-> IF status.agents = 200
                  THEN [n \in studio_agents |-> [name |-> n]]
                  ELSE <<>>,
     teams |-> IF status.teams = 200
                  THEN [t \in StudioTeams |-> [name |-> t]]
                  ELSE <<>>]

NoComponents == [models |-> <<>>, agents |-> <<>>, teams |-> <<>>]

\* get_existing_components, Studio answering /models, /agents and /teams with
\* the given statuses
GetExistingComponents(status) ==
    /\ run_pc = "fetch"
    /\ IF GatherIsAsyncContextManager
         THEN /\ existing' = ComponentsFrom(status)
              /\ metrics' = end_operation("fetch_existing_components", TRUE)
         ELSE /\ existing' = NoComponents
              /\ metrics' = end_operation("fetch_existing_components", FALSE)
    /\ run_pc' = "scan"
    /\ scan_pos' = 1
    /\ agent_configs' = <<>>
    /\ UNCHANGED <<run_result, batch_pc, model_id, tasks, semaphore, sync_results>>
    /\ UNCHANGED <<cacheVars, studioVars, notSyncVars>>

\* the files the glob patterns yield, in order: every file is matched by two of
\* the five patterns ("*.json" and "../**/*agent*.json", "../**/*agent*.py" and
\* "../examples/*agent*.py")
ScanOrder == [k \in 1..(2 * NumFiles) |-> ((k - 1) % NumFiles) + 1]

\* file_path.suffix
Suffix(file_path) == IF file_path % 2 = 1 THEN ".json" ELSE ".py"

\* a .json file holds an agent configuration (name, description,
\* system_message) unless its content is 0; the agent is named by the content
IsValidAgentConfig(content) == content > 0

\* _extract_configs_from_python: an "agent_config = {...}" assignment (even
\* content) matches the first and the second pattern, an AssistantAgent(...)
\* call (odd content) the third
ExtractConfigsFromPython(content) ==
    IF content = 0 THEN <<>>
    ELSE IF content % 2 = 0 THEN <<content, content>>
    ELSE <<content>>

ConfigOf(name, file_path) == [name |-> name, file_path |-> file_path]

ScanFile == ScanOrder[scan_pos]
Scanning == run_pc = "scan" /\ scan_pos <= Len(ScanOrder)

\* scan_agent_files: "if not self.cache.has_changed(...): continue"
ScanSkipsUnchanged ==
    /\ Scanning
    /\ ~has_changed(ScanFile)
    /\ scan_pos' = scan_pos + 1
    /\ UNCHANGED <<run_pc, run_result, existing, agent_configs, batch_pc, model_id,
                   tasks, semaphore, sync_results, metrics>>
    /\ UNCHANGED <<cacheVars, studioVars, notSyncVars>>

\* scan_agent_files, a changed .json file: a valid configuration is appended
\* and the file's hash stored
ScanJson ==
    /\ Scanning
    /\ has_changed(ScanFile)
    /\ Suffix(ScanFile) = ".json"
    /\ IF files[ScanFile] # Unreadable /\ IsValidAgentConfig(files[ScanFile])
         THEN /\ agent_configs' =
                    Append(agent_configs, ConfigOf(files[ScanFile], ScanFile))
              /\ cache' = cache_updated(ScanFile)
              /\ cache_file' = cache'
         ELSE UNCHANGED <<agent_configs, cache, cache_file>>
    /\ scan_pos' = scan_pos + 1
    /\ UNCHANGED <<run_pc, run_result, existing, batch_pc, model_id, tasks, semaphore,
                   sync_results, metrics>>
    /\ UNCHANGED <<files, studioVars, notSyncVars>>

\* scan_agent_files, a changed .py file: the extracted configurations are
\* appended and the file's hash stored
ScanPython ==
    /\ Scanning
    /\ has_changed(ScanFile)
    /\ Suffix(ScanFile) = ".py"
    /\ LET names == IF files[ScanFile] = Unreadable THEN <<>>
                    ELSE ExtractConfigsFromPython(files[ScanFile])
       IN agent_configs' = agent_configs \o
              [k \in 1..Len(names) |-> ConfigOf(names[k], ScanFile)]
    /\ cache' = cache_updated(ScanFile)
    /\ cache_file' = cache'
    /\ scan_pos' = scan_pos + 1
    /\ UNCHANGED <<run_pc, run_result, existing, batch_pc, model_id, tasks, semaphore,
                   sync_results, metrics>>
    /\ UNCHANGED <<files, studioVars, notSyncVars>>

\* scan_agent_files returns; run_automated_sync returns True when nothing was
\* found and calls sync_agents_batch otherwise
ScanEnds ==
    /\ run_pc = "scan"
    /\ scan_pos > Len(ScanOrder)
    /\ metrics' = end_operation("scan_agent_files", TRUE)
    /\ IF agent_configs = <<>>
         THEN /\ run_result' = [kind |-> "return", value |-> TRUE]
              /\ run_pc' = "returned"
              /\ batch_pc' = batch_pc
         ELSE /\ run_result' = run_result
              /\ run_pc' = "sync"
              /\ batch_pc' = "ensure"
    /\ UNCHANGED <<existing, scan_pos, agent_configs, model_id, tasks, semaphore,
                   sync_results>>
    /\ UNCHANGED <<cacheVars, studioVars, notSyncVars>>

\* the tasks gather starts, and the semaphore they share
StartTasks ==
    /\ tasks' = [i \in 1..Len(agent_configs) |-> [pc |-> "created", result |-> [kind |-> "None"]]]
    /\ semaphore' = batch_size

\* _ensure_model_exists finds the model among existing_models
EnsureModelFinds ==
    /\ batch_pc = "ensure"
    /\ \E k \in DOMAIN existing.models : existing.models[k].model = claude_model
    /\ model_id' = (CHOOSE m \in {existing.models[k] : k \in DOMAIN existing.models} :
                        m.model = claude_model).id
    /\ StartTasks
    /\ batch_pc' = "tasks"
    /\ UNCHANGED <<run_pc, run_result, existing, scan_pos, agent_configs, sync_results,
                   metrics>>
    /\ UNCHANGED <<cacheVars, studioVars, notSyncVars>>

\* _ensure_model_exists registers the model: POST /models answers 200 with an id
EnsureModelRegisters ==
    /\ batch_pc = "ensure"
    /\ ~\E k \in DOMAIN existing.models : existing.models[k].model = claude_model
    /\ posts' = Posted("models", claude_model)
    /\ studio_models' = studio_models \cup {ClaudeModel}
    /\ metrics' = end_operation("register_model", TRUE)
    /\ model_id' = ClaudeModel.id
    /\ StartTasks
    /\ batch_pc' = "tasks"
    /\ UNCHANGED <<run_pc, run_result, existing, scan_pos, agent_configs, sync_results>>
    /\ UNCHANGED <<cacheVars, studio_agents, notSyncVars>>

\* POST /models answers another status or raises: register_model_async returns
\* None and sync_agents_batch returns its empty results, "No model available"
EnsureModelFails(raised) ==
    /\ batch_pc = "ensure"
    /\ ~\E k \in DOMAIN existing.models : existing.models[k].model = claude_model
    /\ posts' = Posted("models", claude_model)
    /\ metrics' = metrics (+) SetToBag({[operation |-> "register_model", success |-> FALSE],
                                         [operation |-> "batch_sync_agents", success |-> FALSE]})
    /\ sync_results' = <<>>
    /\ batch_pc' = "done"
    /\ UNCHANGED <<run_pc, run_result, existing, scan_pos, agent_configs, model_id,
                   tasks, semaphore>>
    /\ UNCHANGED <<cacheVars, studio_models, studio_agents, notSyncVars>>

\* "async with semaphore": the coroutine goes on when the semaphore is free
SemaphoreNotAwaited == TRUE
SemaphoreFree == semaphore > 0

TaskCreated(i) ==
    /\ batch_pc = "tasks"
    /\ i \in DOMAIN tasks
    /\ tasks[i].pc = "created"
    /\ SemaphoreFree

agent_name(i) == agent_configs[i].name

\* _sync_single_agent: "if agent_name in existing_agents": skipped; the
\* semaphore is taken and released without an await in between
TaskSkipsExisting(i) ==
    /\ TaskCreated(i)
    /\ agent_name(i) \in DOMAIN existing.agents
    /\ tasks' = [tasks EXCEPT ![i] =
          [pc |-> "done",
           result |-> SyncResult(agent_name(i), TRUE, "Agent already exists (skipped)")]]
    /\ UNCHANGED <<run_pc, run_result, existing, scan_pos, agent_configs, batch_pc,
                   model_id, semaphore, sync_results, metrics>>
    /\ UNCHANGED <<cacheVars, studioVars, notSyncVars>>

\* _sync_single_agent up to the POST /agents of register_agent_async
TaskPosts(i) ==
    /\ TaskCreated(i)
    /\ agent_name(i) \notin DOMAIN existing.agents
    /\ semaphore' = semaphore - 1
    /\ posts' = Posted("agents", agent_name(i))
    /\ tasks' = [tasks EXCEPT ![i].pc = "posting"]
    /\ UNCHANGED <<run_pc, run_result, existing, scan_pos, agent_configs, batch_pc,
                   model_id, sync_results, metrics>>
    /\ UNCHANGED <<cacheVars, studio_models, studio_agents, notSyncVars>>

\* the coroutines in which the environment makes the call fail
Faulty == {2}

\* an exception leaves the coroutine outside _sync_single_agent's try block
\* (lines 503-504); "async with" releases the semaphore, gather keeps the exception
TaskRaises(i) ==
    /\ TaskCreated(i)
    /\ i \in Faulty
    /\ tasks' = [tasks EXCEPT ![i] =
          [pc |-> "done", result |-> [kind |-> "Exception", message |-> "boom"]]]
    /\ UNCHANGED <<run_pc, run_result, existing, scan_pos, agent_configs, batch_pc,
                   model_id, semaphore, sync_results, metrics>>
    /\ UNCHANGED <<cacheVars, studioVars, notSyncVars>>

\* POST /agents answers 200 with an id: registered
TaskRegistered(i) ==
    /\ batch_pc = "tasks"
    /\ i \in DOMAIN tasks
    /\ tasks[i].pc = "posting"
    /\ studio_agents' = studio_agents \cup {agent_name(i)}
    /\ metrics' = end_operation("register_agent", TRUE)
    /\ tasks' = [tasks EXCEPT ![i] =
          [pc |-> "done", result |-> SyncResult(agent_name(i), TRUE, None)]]
    /\ semaphore' = semaphore + 1
    /\ UNCHANGED <<run_pc, run_result, existing, scan_pos, agent_configs, batch_pc,
                   model_id, sync_results>>
    /\ UNCHANGED <<cacheVars, studio_models, posts, notSyncVars>>

\* POST /agents answers another status, or raises: register_agent_async returns
\* None, "Registration failed"
TaskRegistrationFails(i, raised) ==
    /\ batch_pc = "tasks"
    /\ i \in DOMAIN tasks
    /\ tasks[i].pc = "posting"
    /\ metrics' = end_operation("register_agent", FALSE)
    /\ tasks' = [tasks EXCEPT ![i] =
          [pc |-> "done",
           result |-> SyncResult(agent_name(i), FALSE, "Registration failed")]]
    /\ semaphore' = semaphore + 1
    /\ UNCHANGED <<run_pc, run_result, existing, scan_pos, agent_configs, batch_pc,
                   model_id, sync_results>>
    /\ UNCHANGED <<cacheVars, studioVars, notSyncVars>>

\* asyncio.gather(*sync_tasks, return_exceptions=True): result i is task i's
Gather == [i \in DOMAIN tasks |-> tasks[i].result]

\* "for i, result in enumerate(results)": exceptions become failed SyncResults
ProcessResultsKeepsExceptions(gathered) == gathered
ProcessResults(gathered) ==
    [i \in DOMAIN gathered |->
        IF gathered[i].kind = "Exception"
          THEN SyncResult(agent_configs[i].name, FALSE, gathered[i].message)
          ELSE gathered[i]]

\* "r.success" can be read of every processed result
AllHaveSuccess(processed) ==
    \A i \in DOMAIN processed : processed[i].kind = "SyncResult"

\* gather returns: sync_agents_batch processes the results and returns them;
\* if reading r.success raises, "except Exception" returns the gathered list
BatchReturns ==
    /\ batch_pc = "tasks"
    /\ \A i \in DOMAIN tasks : tasks[i].pc = "done"
    /\ LET processed_results == ProcessResults(Gather)
       IN IF AllHaveSuccess(processed_results)
            THEN /\ sync_results' = processed_results
                 /\ metrics' = end_operation("batch_sync_agents",
                        \A i \in DOMAIN processed_results : processed_results[i].success)
            ELSE /\ sync_results' = Gather
                 /\ metrics' = end_operation("batch_sync_agents", FALSE)
    /\ batch_pc' = "done"
    /\ UNCHANGED <<run_pc, run_result, existing, scan_pos, agent_configs, model_id,
                   tasks, semaphore>>
    /\ UNCHANGED <<cacheVars, studioVars, notSyncVars>>

\* run_automated_sync: "return len(failed) == 0"
RunReturns ==
    /\ run_pc = "sync"
    /\ batch_pc = "done"
    /\ run_result' = [kind |-> "return",
                      value |-> \A i \in DOMAIN sync_results : sync_results[i].success]
    /\ run_pc' = "returned"
    /\ UNCHANGED <<existing, scan_pos, agent_configs, batch_pc, model_id, tasks,
                   semaphore, sync_results, metrics>>
    /\ UNCHANGED <<cacheVars, studioVars, notSyncVars>>

NextBatch ==
    \/ EnsureModelFinds
    \/ EnsureModelRegisters
    \/ \E raised \in BOOLEAN : EnsureModelFails(raised)
    \/ \E i \in DOMAIN tasks : TaskSkipsExisting(i)
    \/ \E i \in DOMAIN tasks : TaskPosts(i)
    \/ \E i \in DOMAIN tasks : TaskRaises(i)
    \/ \E i \in DOMAIN tasks : TaskRegistered(i)
    \/ \E i \in DOMAIN tasks, raised \in BOOLEAN : TaskRegistrationFails(i, raised)
    \/ BatchReturns

NextSync ==
    \/ HealthOk
    \/ \E raised \in BOOLEAN : HealthFails(raised)
    \/ \E status \in [models : {200, 500}, agents : {200, 500}, teams : {200, 500}] :
          GetExistingComponents(status)
    \/ ScanSkipsUnchanged
    \/ ScanJson
    \/ ScanPython
    \/ ScanEnds
    \/ NextBatch
    \/ RunReturns

\* Studio as a run may find it
InitStudio ==
    /\ studio_models \in {{}, {ClaudeModel}}
    /\ studio_agents \in {{}, {1}}
    /\ posts = [models |-> <<>>, agents |-> <<>>]

\* sync_agents_batch(agent_configs, existing_models, existing_agents) called
\* directly, with NumBatch configurations and what Studio holds: nothing, or
\* the model and the first agent
InitBatch ==
    /\ \/ studio_models = {} /\ studio_agents = {}
       \/ studio_models = {ClaudeModel} /\ studio_agents = {1}
    /\ posts = [models |-> <<>>, agents |-> <<>>]
    /\ run_pc = "idle"
    /\ run_result = [kind |-> "running"]
    /\ existing = ComponentsFrom([models |-> 200, agents |-> 200, teams |-> 200])
    /\ scan_pos = 0
    /\ agent_configs = [i \in 1..NumBatch |-> ConfigOf(i, 0)]
    /\ batch_pc = "ensure"
    /\ model_id = None
    /\ tasks = <<>>
    /\ semaphore = 0
    /\ sync_results = <<>>
    /\ metrics = EmptyBag
    /\ IdleCacheVars

\* run_automated_sync on a fresh AutoGenStudioSync: the cache is loaded from the
\* cache file, which holds nothing or the hashes of the files as they are
InitRun ==
    /\ InitStudio
    /\ files \in [Paths -> Contents]
    /\ cache_file \in {<<>>, [f \in Paths |-> MD5(files[f])]}
    /\ cache = load_cache
    /\ run_pc = "health"
    /\ run_result = [kind |-> "running"]
    /\ existing = NoComponents
    /\ scan_pos = 0
    /\ agent_configs = <<>>
    /\ batch_pc = "idle"
    /\ model_id = None
    /\ tasks = <<>>
    /\ semaphore = 0
    /\ sync_results = <<>>
    /\ metrics = EmptyBag

\* the two entry points: a run, or a batch called directly
InitSync == (InitRun \/ InitBatch) /\ IdleRetryVars /\ IdleLambdaVars /\ IdleExtraVars

SpecSync == InitSync /\ [][NextSync]_vars

\* the event loop runs every coroutine that can go on, and every request ends
FairSpecSync == SpecSync /\ WF_vars(NextSync)

\* ------------------------------------------------------------- claims: sync

\* the executions of _sync_single_agent that hold the semaphore
InFlight == Cardinality({i \in DOMAIN tasks : tasks[i].pc = "posting"})
AllTasksDone == \A i \in DOMAIN tasks : tasks[i].pc = "done"

\* C6: while sync_agents_batch runs, at most 5 executions of _sync_single_agent
\* (and so at most 5 POST /agents requests) are in flight at any time, in every
\* interleaving, and once the tasks are started every one of them completes and
\* the batch returns.
C6_AtMostFiveInFlight ==
    /\ [](InFlight <= 5 /\ semaphore >= 0)
    /\ (batch_pc = "tasks") ~> (batch_pc = "done" /\ AllTasksDone)

\* five registrations are in flight and a sixth coroutine waits for the semaphore
C6_Witness ==
    /\ batch_pc = "tasks"
    /\ Len(agent_configs) > 5
    /\ InFlight = 5
    /\ semaphore = 0
    /\ \E i \in DOMAIN tasks : tasks[i].pc = "created"

\* C7: with a model id, sync_agents_batch returns one SyncResult per input
\* configuration, result i carrying the name of agent_configs[i]; a task that
\* raised is a SyncResult with success = false and the exception's message.
C7_OneResultPerConfig ==
    (batch_pc = "done" /\ model_id # None) =>
        /\ Len(sync_results) = Len(agent_configs)
        /\ \A i \in DOMAIN sync_results :
              /\ sync_results[i].kind = "SyncResult"
              /\ sync_results[i].agent_name = agent_configs[i].name
              /\ tasks[i].result.kind = "Exception" =>
                    /\ sync_results[i].success = FALSE
                    /\ sync_results[i].error_message = tasks[i].result.message
              /\ tasks[i].result.kind = "SyncResult" => sync_results[i] = tasks[i].result

\* a batch in which the second task raised and the first registered its agent
C7_Witness ==
    /\ batch_pc = "done"
    /\ model_id # None
    /\ Len(agent_configs) >= 2
    /\ tasks[2].result.kind = "Exception"
    /\ sync_results[2].success = FALSE
    /\ sync_results[1].success = TRUE
    /\ sync_results[1].error_message = None

\* configuration i was registered by the batch, or found in Studio
Synchronized(i) == i \in DOMAIN sync_results /\ sync_results[i].success

\* C9: a file's hash is stored only once its configurations are synchronized:
\* when run_automated_sync returns, every file that yielded a configuration
\* which was not registered (or never submitted) is still reported as changed.
C9_UnsyncedFilesStayChanged ==
    run_pc = "returned" =>
        \A i \in DOMAIN agent_configs :
            ~Synchronized(i) => has_changed(agent_configs[i].file_path)

AllOk == [models |-> 200, agents |-> 200, teams |-> 200]

\* C10: when Studio answers 200 on /models, /agents and /teams,
\* get_existing_components returns every model (keyed by model string), agent
\* and team (keyed by name) Studio holds and records a successful
\* fetch_existing_components metric.
C10_FetchReturnsStudioComponents ==
    [][ GetExistingComponents(AllOk) =>
          /\ DOMAIN existing'.models = {m.model : m \in studio_models}
          /\ DOMAIN existing'.agents = studio_agents
          /\ DOMAIN existing'.teams = StudioTeams
          /\ BagIn([operation |-> "fetch_existing_components", success |-> TRUE],
                   metrics')
      ]_vars

InRun == run_pc \in {"health", "fetch", "scan", "sync", "returned"}
InStudio(i) == agent_configs[i].name \in studio_agents

\* C19: run_automated_sync returns True only if every configuration the scan
\* found is in Studio when the run ends; if one of them was not registered,
\* also when no model could be found or created, it returns False.
C19_TrueOnlyIfAllInStudio ==
    (run_pc = "returned" /\ run_result.value = TRUE) =>
        \A i \in DOMAIN agent_configs : InStudio(i)

\* the POST of task i is the first POST /agents of its name in this run, so
\* Studio holds the name now exactly if it listed it when the run started
FirstPostOfName(i) == TaskPosts(i) /\ agent_name(i) \notin DOMAIN posts.agents
ModelListed == \E m \in studio_models : m.model = claude_model
PostsModel == EnsureModelRegisters \/ \E raised \in BOOLEAN : EnsureModelFails(raised)

\* C20: in a run, no POST /agents is sent for a name Studio listed under
\* /agents when the run started, and no POST /models when Studio lists a model
\* claude-opus-4-20250514.
C20_NoPostForListedComponents ==
    [][ InRun =>
          /\ \A i \in DOMAIN tasks :
                FirstPostOfName(i) => agent_name(i) \notin studio_agents
          /\ PostsModel => ~ModelListed
      ]_vars

\* C22: within one sync_agents_batch call at most one POST /agents is sent
\* per agent name, also when agent_configs holds the name several times.
C22_OnePostPerAgentName ==
    \A name \in DOMAIN posts.agents : posts.agents[name] <= 1

\* the records the monitor holds for one operation
Records(operation) ==
    CopiesIn([operation |-> operation, success |-> TRUE], metrics)
      + CopiesIn([operation |-> operation, success |-> FALSE], metrics)

RECURSIVE SumOver(_, _)
SumOver(dict, keys) ==
    IF keys = {} THEN 0
    ELSE LET k == CHOOSE x \in keys : TRUE
         IN dict[k] + SumOver(dict, keys \ {k})

\* the POST requests sent to one resource
TotalPosts(resource) == SumOver(posts[resource], DOMAIN posts[resource])

\* the monitored operations that have been called and have ended
HealthChecked == run_pc \notin {"idle", "health"}
Fetched == run_pc \in {"scan", "sync"} \/ (run_pc = "returned" /\ scan_pos >= 1)
Scanned == run_pc = "sync" \/ (run_pc = "returned" /\ scan_pos >= 1)
AsNumber(b) == IF b THEN 1 ELSE 0

\* C23: every call of a monitored operation appends exactly one record, on
\* every path; register_agent_async running concurrently in a batch loses and
\* duplicates none, so a batch that attempted N registrations leaves N
\* "register_agent" records.
C23_OneRecordPerOperation ==
    /\ Records("health_check") = AsNumber(HealthChecked)
    /\ Records("fetch_existing_components") = AsNumber(Fetched)
    /\ Records("scan_agent_files") = AsNumber(Scanned)
    /\ Records("register_model") = TotalPosts("models")
    /\ Records("register_agent") = TotalPosts("agents") - InFlight
    /\ Records("batch_sync_agents") = AsNumber(batch_pc = "done")
    /\ batch_pc = "done" => Records("register_agent") = TotalPosts("agents")

\* a batch has ended in which every one of several agents was posted, some
\* registered and some refused
C23_Witness ==
    /\ batch_pc = "done"
    /\ Len(agent_configs) >= 2
    /\ Records("register_agent") = Len(agent_configs)
    /\ CopiesIn([operation |-> "register_agent", success |-> TRUE], metrics) >= 1
    /\ CopiesIn([operation |-> "register_agent", success |-> FALSE], metrics) >= 1

\* ------------------------- scan_agent_files called again and again

\* scan_agent_files is called at most this many times
MaxScans == 2

\* scan_agent_files reaches "return agent_configs": one record for the monitor,
\* and the caller has the list
ScanReturns ==
    /\ run_pc = "scan"
    /\ scan_pos > Len(ScanOrder)
    /\ metrics' = end_operation("scan_agent_files", TRUE)
    /\ run_pc' = "scanned"
    /\ scan_returns' = Append(scan_returns, [configs |-> agent_configs, quiet |-> quiet])
    /\ quiet' = TRUE
    /\ UNCHANGED <<run_result, existing, scan_pos, agent_configs, batch_pc, model_id,
                   tasks, semaphore, sync_results>>
    /\ UNCHANGED <<cacheVars, studioVars, notScanVars>>

\* scan_agent_files is called once more: by the same AutoGenStudioSync, whose
\* SyncCache keeps its dict, or by a new one (new_run), whose SyncCache loads
\* the cache file and whose PerformanceMonitor is empty
ScanCalledAgain(new_run) ==
    /\ run_pc = "scanned"
    /\ Len(scan_returns) < MaxScans
    /\ cache' = IF new_run THEN load_cache ELSE cache
    /\ metrics' = IF new_run THEN EmptyBag ELSE metrics
    /\ agent_configs' = <<>>
    /\ scan_pos' = 1
    /\ run_pc' = "scan"
    /\ UNCHANGED <<run_result, existing, batch_pc, model_id, tasks, semaphore,
                   sync_results>>
    /\ UNCHANGED <<files, cache_file, scanVars, studioVars, notScanVars>>

\* between two calls a file is written, created or made unreadable
FileChangesBetweenScans ==
    /\ run_pc = "scanned"
    /\ Len(scan_returns) < MaxScans
    /\ quiet
    /\ \E f \in Paths, c \in Contents \cup {Unreadable} :
          /\ files[f] # c
          /\ files' = [files EXCEPT ![f] = c]
    /\ quiet' = FALSE
    /\ UNCHANGED <<cache, cache_file, scan_returns>>
    /\ UNCHANGED <<syncVars, studioVars, notScanVars>>

NextScan ==
    \/ ScanSkipsUnchanged
    \/ ScanJson
    \/ ScanPython
    \/ ScanReturns
    \/ \E new_run \in BOOLEAN : ScanCalledAgain(new_run)
    \/ FileChangesBetweenScans

\* the first call: the files hold anything, and the cache file is missing or
\* was written by an earlier run
InitScan ==
    /\ files \in [Paths -> Contents]
    /\ cache_file \in {<<>>, [f \in Paths |-> MD5(files[f])]}
    /\ cache = load_cache
    /\ studio_models = {}
    /\ studio_agents = {}
    /\ posts = [models |-> <<>>, agents |-> <<>>]
    /\ run_pc = "scan"
    /\ run_result = [kind |-> "running"]
    /\ existing = NoComponents
    /\ scan_pos = 1
    /\ agent_configs = <<>>
    /\ batch_pc = "idle"
    /\ model_id = None
    /\ tasks = <<>>
    /\ semaphore = 0
    /\ sync_results = <<>>
    /\ metrics = EmptyBag
    /\ IdleScanVars /\ IdleMonitorVars /\ IdleDashVars /\ IdleImportVars
    /\ IdleRetryVars /\ IdleLambdaVars /\ IdleCreateVars /\ IdleMainVars /\ IdleRegVars
    /\ IdleCollectorVars

SpecScan == InitScan /\ [][NextScan]_vars

MaxRecords == 3

Operations == {"health_check", "scan_agent_files", "register_agent"}
Latencies == {10, 30}

\* PerformanceMetrics: operation, success, latency_ms
PerformanceMetrics(operation, success, latency_ms) ==
    [operation |-> operation, success |-> success, latency_ms |-> latency_ms]

\* "sum(1 for m in self.metrics if m.success)"
successful_operations(ms) == Cardinality({i \in DOMAIN ms : ms[i].success})

RECURSIVE SumLatency(_)
SumLatency(ms) ==
    IF ms = <<>> THEN 0
    ELSE ms[Len(ms)].latency_ms + SumLatency(SubSeq(ms, 1, Len(ms) - 1))

MaxLatency(ms) ==
    CHOOSE x \in {ms[i].latency_ms : i \in DOMAIN ms} :
        \A i \in DOMAIN ms : ms[i].latency_ms <= x
MinLatency(ms) ==
    CHOOSE x \in {ms[i].latency_ms : i \in DOMAIN ms} :
        \A i \in DOMAIN ms : ms[i].latency_ms >= x

\* "if metric.success: ...['success_count'] += 1"
SuccessIncrementAlways(metric) == 1
SuccessIncrement(metric) == IF metric.success THEN 1 ELSE 0

\* "for metric in self.metrics": operation_stats after the loop
RECURSIVE OperationStats(_)
OperationStats(ms) ==
    IF ms = <<>> THEN <<>>
    ELSE LET metric == ms[Len(ms)]
             before == OperationStats(SubSeq(ms, 1, Len(ms) - 1))
             stats == IF metric.operation \in DOMAIN before
                        THEN before[metric.operation]
                        ELSE [count |-> 0, success_count |-> 0, total_latency |-> 0]
         IN DictSet(before, metric.operation,
                [count |-> stats.count + 1,
                 success_count |-> stats.success_count + SuccessIncrement(metric),
                 total_latency |-> stats.total_latency + metric.latency_ms])

\* "for op_name, stats in operation_stats.items()": the averages of each
\* operation, in whole numbers
WithAverages(operation_stats) ==
    [op_name \in DOMAIN operation_stats |->
        LET stats == operation_stats[op_name]
        IN [count |-> stats.count,
            success_count |-> stats.success_count,
            total_latency |-> stats.total_latency,
            avg_latency |-> stats.total_latency \div stats.count,
            success_rate |-> (stats.success_count * 100) \div stats.count]]

\* PerformanceMonitor.get_summary, without total_runtime_seconds
get_summary(ms) ==
    LET total_operations == Len(ms)
    IN IF total_operations = 0
         THEN [error |-> "No operations recorded"]
         ELSE [total_operations |-> total_operations,
               successful_operations |-> successful_operations(ms),
               success_rate_percent |->
                   (successful_operations(ms) * 100) \div total_operations,
               avg_latency_ms |-> SumLatency(ms) \div total_operations,
               max_latency_ms |-> MaxLatency(ms),
               min_latency_ms |-> MinLatency(ms),
               operation_breakdown |-> WithAverages(OperationStats(ms))]

\* PerformanceMonitor.end_operation: one more record
MonitorEndOperation(operation, success, latency_ms) ==
    /\ Len(metrics_list) < MaxRecords
    /\ metrics_list' =
          Append(metrics_list, PerformanceMetrics(operation, success, latency_ms))
    /\ UNCHANGED last_summary
    /\ UNCHANGED notMonitorVars

\* get_summary is called
MonitorGetSummary ==
    /\ last_summary' = [called |-> TRUE, metrics |-> metrics_list,
                        result |-> get_summary(metrics_list)]
    /\ UNCHANGED metrics_list
    /\ UNCHANGED notMonitorVars

NextMonitor ==
    \/ \E operation \in Operations, success \in BOOLEAN, latency_ms \in Latencies :
          MonitorEndOperation(operation, success, latency_ms)
    \/ MonitorGetSummary

InitMonitor ==
    IdleMonitorVars /\ IdleScanVars /\ IdleDashVars /\ IdleImportVars /\ IdleEarlyVars

SpecMonitor == InitMonitor /\ [][NextMonitor]_vars

\* the sum of one field over the operations of operation_breakdown
BreakdownSum(breakdown, field) ==
    SumOver([op_name \in DOMAIN breakdown |-> breakdown[op_name][field]], DOMAIN breakdown)

\* C24: after any sequence of recorded operations get_summary returns
\* total_operations equal to the number of records, successful_operations at
\* most that, per-operation counts that sum to total_operations and
\* success_counts that sum to successful_operations; with no record it returns
\* an error dictionary.
C24_SummaryConsistent ==
    last_summary.called =>
        LET result == last_summary.result
            seen == last_summary.metrics
        IN IF seen = <<>>
             THEN DOMAIN result = {"error"}
             ELSE /\ result.total_operations = Len(seen)
                  /\ result.successful_operations <= result.total_operations
                  /\ BreakdownSum(result.operation_breakdown, "count")
                        = result.total_operations
                  /\ BreakdownSum(result.operation_breakdown, "success_count")
                        = result.successful_operations

\* a summary of three records of two operations, one of them a failure
C24_Witness ==
    /\ last_summary.called
    /\ Len(last_summary.metrics) = 3
    /\ last_summary.result.total_operations = 3
    /\ last_summary.result.successful_operations = 2
    /\ Cardinality(DOMAIN last_summary.result.operation_breakdown) = 2

\* a summary taken before anything was recorded
EmptySummaryReached ==
    /\ last_summary.called
    /\ last_summary.metrics = <<>>
    /\ "error" \in DOMAIN last_summary.result

\* ------------------------------------ studio/auto_sync_to_studio.py main

\* "if args.analyze: ... elif args.sync: ... elif args.watch: ... else: ..."
ModeSyncFirst ==
    IF args.sync THEN "sync"
    ELSE IF args.analyze THEN "analyze"
    ELSE IF args.watch THEN "watch"
    ELSE "usage"
Mode ==
    IF args.analyze THEN "analyze"
    ELSE IF args.sync THEN "sync"
    ELSE IF args.watch THEN "watch"
    ELSE "usage"

\* asyncio.run(run_performance_analysis()) or asyncio.run(run_automated_sync()):
\* "async with AutoGenStudioSync() as sync" loads the cache, then the health check
MainRuns(mode) ==
    /\ main_pc = "start"
    /\ Mode = mode
    /\ mode \in {"analyze", "sync"}
    /\ main_mode' = mode
    /\ main_pc' = "running"
    /\ cache' = load_cache
    /\ run_pc' = "health"
    /\ UNCHANGED <<run_result, existing, scan_pos, agent_configs, batch_pc, model_id,
                   tasks, semaphore, sync_results, metrics>>
    /\ UNCHANGED <<args, files, cache_file, studioVars, notMainVars>>

\* the --watch branch and the usage branch only print
MainPrints(mode) ==
    /\ main_pc = "start"
    /\ Mode = mode
    /\ mode \in {"watch", "usage"}
    /\ main_mode' = mode
    /\ main_pc' = "done"
    /\ UNCHANGED <<args, cacheVars, studioVars, syncVars, notMainVars>>

\* asyncio.run returns; main ignores the value
MainReturns ==
    /\ main_pc = "running"
    /\ run_pc = "returned"
    /\ main_pc' = "done"
    /\ UNCHANGED <<args, main_mode, cacheVars, studioVars, syncVars, notMainVars>>

\* run_performance_analysis: "if not is_healthy: ... return"
AnalysisHealthFails(raised) ==
    /\ run_pc = "health"
    /\ metrics' = end_operation("health_check", FALSE)
    /\ run_result' = [kind |-> "return_none"]
    /\ run_pc' = "returned"
    /\ UNCHANGED <<existing, scan_pos, agent_configs, batch_pc, model_id, tasks,
                   semaphore, sync_results>>
    /\ UNCHANGED <<cacheVars, studioVars, notSyncVars>>

\* run_performance_analysis after scan_agent_files: with configurations it
\* calls sync_agents_batch, without it goes on to the report and returns
AnalysisScanEnds ==
    /\ run_pc = "scan"
    /\ scan_pos > Len(ScanOrder)
    /\ metrics' = end_operation("scan_agent_files", TRUE)
    /\ IF agent_configs = <<>>
         THEN /\ run_result' = [kind |-> "return_none"]
              /\ run_pc' = "returned"
              /\ batch_pc' = batch_pc
         ELSE /\ run_result' = run_result
              /\ run_pc' = "sync"
              /\ batch_pc' = "ensure"
    /\ UNCHANGED <<existing, scan_pos, agent_configs, model_id, tasks, semaphore,
                   sync_results>>
    /\ UNCHANGED <<cacheVars, studioVars, notSyncVars>>

\* run_performance_analysis after sync_agents_batch: the report, then it returns
AnalysisReturns ==
    /\ run_pc = "sync"
    /\ batch_pc = "done"
    /\ run_result' = [kind |-> "return_none"]
    /\ run_pc' = "returned"
    /\ UNCHANGED <<existing, scan_pos, agent_configs, batch_pc, model_id, tasks,
                   semaphore, sync_results, metrics>>
    /\ UNCHANGED <<cacheVars, studioVars, notSyncVars>>

\* the coroutine main handed to asyncio.run is run_performance_analysis
RunsAnalysis == main_mode = "analyze"

\* main, and the coroutine it runs: run_performance_analysis and
\* run_automated_sync make the same calls and differ in how they return
NextMain ==
    \/ \E mode \in {"analyze", "sync"} : MainRuns(mode)
    \/ \E mode \in {"watch", "usage"} : MainPrints(mode)
    \/ MainReturns
    \/ HealthOk
    \/ ~RunsAnalysis /\ \E raised \in BOOLEAN : HealthFails(raised)
    \/ RunsAnalysis /\ \E raised \in BOOLEAN : AnalysisHealthFails(raised)
    \/ \E status \in [models : {200, 500}, agents : {200, 500}, teams : {200, 500}] :
          GetExistingComponents(status)
    \/ ScanSkipsUnchanged
    \/ ScanJson
    \/ ScanPython
    \/ ~RunsAnalysis /\ ScanEnds
    \/ RunsAnalysis /\ AnalysisScanEnds
    \/ NextBatch
    \/ ~RunsAnalysis /\ RunReturns
    \/ RunsAnalysis /\ AnalysisReturns

\* the script started with any combination of the three flags, the files, the
\* cache file and Studio as a run may find them
InitMain ==
    /\ args \in [analyze : BOOLEAN, sync : BOOLEAN, watch : BOOLEAN]
    /\ main_pc = "start"
    /\ main_mode = "none"
    /\ InitStudio
    /\ files \in [Paths -> Contents]
    /\ cache_file \in {<<>>, [f \in Paths |-> MD5(files[f])]}
    /\ cache = <<>>
    /\ run_pc = "idle"
    /\ run_result = [kind |-> "running"]
    /\ existing = NoComponents
    /\ scan_pos = 0
    /\ agent_configs = <<>>
    /\ batch_pc = "idle"
    /\ model_id = None
    /\ tasks = <<>>
    /\ semaphore = 0
    /\ sync_results = <<>>
    /\ metrics = EmptyBag

\* the script, or sync_agents_batch called directly by another caller
InitScript ==
    /\ InitMain \/ (InitBatch /\ IdleMainVars)
    /\ IdleRetryVars /\ IdleLambdaVars /\ IdleCreateVars /\ IdleRegVars
    /\ IdleCollectorVars /\ IdleLaterVars

SpecMain == InitScript /\ [][NextMain]_vars

\* ------------------------------------------------------------- claims: main

OnlyWatch == args = [analyze |-> FALSE, sync |-> FALSE, watch |-> TRUE]
NothingDone ==
    /\ run_pc = "idle"
    /\ batch_pc = "idle"
    /\ scan_pos = 0
    /\ metrics = EmptyBag
    /\ posts = [models |-> <<>>, agents |-> <<>>]
    /\ cache = <<>>

\* C13: main runs exactly one mode, --analyze before --sync before --watch;
\* with --watch alone it synchronizes nothing: no request is sent, no file is
\* scanned, and the cache and its file stay as they were.
C13_OneModeByPrecedence ==
    /\ [](main_mode # "none" =>
            /\ args.analyze => main_mode = "analyze"
            /\ (~args.analyze /\ args.sync) => main_mode = "sync"
            /\ (~args.analyze /\ ~args.sync /\ args.watch) => main_mode = "watch"
            /\ run_pc = "returned" =>
                  (run_result.kind = "return") = (main_mode = "sync"))
    /\ []((main_pc # "idle" /\ OnlyWatch) => NothingDone)
    /\ [][(main_pc # "idle" /\ OnlyWatch) =>
            UNCHANGED <<cacheVars, studioVars, syncVars>>]_vars

\* --watch alone, with changed files waiting: main printed and ended
C13_Witness ==
    /\ OnlyWatch
    /\ main_pc = "done"
    /\ main_mode = "watch"
    /\ cache_file = <<>>
    /\ \A f \in Paths : files[f] > 0

\* --------------------------------- studio/register_agents_in_studio.py

test_agent == "VS_Code_Test_Agent"
team_name == "team"
ParticipantNames == {test_agent, "analyst"}

\* None, as register_* returns it; Studio's ids start at 1
NoId == 0

Range(f) == {f[k] : k \in DOMAIN f}

\* "for x in listing: if x.get(key) == ...: return x['id']": the first match
FirstMatch(listing, key) ==
    CHOOSE k \in DOMAIN listing :
        /\ listing[k] = key
        /\ \A j \in DOMAIN listing : listing[j] = key => k <= j

\* "if response.status_code == 200" and the loop over the listing finds the key
ListedNever(get, listing, key) == FALSE
Listed(get, listing, key) == get = 200 /\ key \in Range(listing)

\* what register_model, register_agent or register_team returns
RegisteredId(resource, key, get, post) ==
    IF Listed(get, components[resource], key)
      THEN FirstMatch(components[resource], key)
      ELSE IF post = 200 THEN Len(components[resource]) + 1 ELSE NoId

\* one register_* call: the GET, and unless the key is listed the POST, which
\* Studio answers with 200 and the id of the component it stored, or otherwise
Register(resource, key, get, post) ==
    /\ components' =
          IF ~Listed(get, components[resource], key) /\ post = 200
            THEN [components EXCEPT ![resource] = Append(@, key)]
            ELSE components
    /\ reg_posts' =
          IF Listed(get, components[resource], key) THEN reg_posts ELSE reg_posts + 1
    /\ gets_ok' = (gets_ok /\ get = 200)
    /\ reg_last' = [resource |-> resource, key |-> key, get |-> get,
                    present |-> key \in Range(components[resource]),
                    posted |-> ~Listed(get, components[resource], key),
                    id |-> RegisteredId(resource, key, get, post)]

\* main: GET /health answers 200, the API is used
RegHealthOk ==
    /\ reg_pc = "health"
    /\ reg_pc' = "model"
    /\ UNCHANGED <<components, run_start, gallery, team_file, participants, reg_run, reg_model_id,
                   agent_ids, reg_idx, reg_posts, gets_ok, reg_last>>
    /\ UNCHANGED notRegVars

\* main: /health answers otherwise or the request raises: use_database_direct,
\* which inserts the test agent unless a row names it, or fails on the database
RegUseDatabase(db_ok) ==
    /\ reg_pc = "health"
    /\ gallery' = IF db_ok /\ gallery = 0 THEN 1 ELSE gallery
    /\ reg_pc' = "done"
    /\ UNCHANGED <<components, run_start, team_file, participants, reg_run,
                   reg_model_id, agent_ids, reg_idx, reg_posts, gets_ok, reg_last>>
    /\ UNCHANGED notRegVars

\* main: "model_id = register_model()", "if not model_id: return"
RegModel(get, post) ==
    /\ reg_pc = "model"
    /\ Register("models", claude_model, get, post)
    /\ reg_model_id' = RegisteredId("models", claude_model, get, post)
    /\ reg_pc' = IF reg_model_id' = NoId THEN "done" ELSE "test_agent"
    /\ UNCHANGED <<run_start, gallery, team_file, participants, reg_run, agent_ids, reg_idx>>
    /\ UNCHANGED notRegVars

\* "if x_id: agent_ids.append(x_id)"
AppendId(ids, id) == IF id # NoId THEN Append(ids, id) ELSE ids

\* main: register_test_agent(model_id)
RegTestAgent(get, post) ==
    /\ reg_pc = "test_agent"
    /\ Register("agents", test_agent, get, post)
    /\ agent_ids' = AppendId(agent_ids, RegisteredId("agents", test_agent, get, post))
    /\ reg_idx' = 1
    /\ reg_pc' = IF team_file THEN "participants" ELSE "team"
    /\ UNCHANGED <<run_start, gallery, team_file, participants, reg_run, reg_model_id>>
    /\ UNCHANGED notRegVars

\* main: one iteration of "for participant in team_config['participants']"
RegParticipant(get, post) ==
    /\ reg_pc = "participants"
    /\ reg_idx <= Len(participants)
    /\ Register("agents", participants[reg_idx], get, post)
    /\ agent_ids' =
          AppendId(agent_ids, RegisteredId("agents", participants[reg_idx], get, post))
    /\ reg_idx' = reg_idx + 1
    /\ UNCHANGED <<run_start, gallery, team_file, participants, reg_run, reg_pc, reg_model_id>>
    /\ UNCHANGED notRegVars

\* main: the loop over the participants is over
RegParticipantsEnd ==
    /\ reg_pc = "participants"
    /\ reg_idx > Len(participants)
    /\ reg_pc' = "team"
    /\ UNCHANGED <<components, run_start, gallery, team_file, participants, reg_run, reg_model_id,
                   agent_ids, reg_idx, reg_posts, gets_ok, reg_last>>
    /\ UNCHANGED notRegVars

\* main: "if agent_ids and team_path.exists(): register_team(...)"
RegTeam(get, post) ==
    /\ reg_pc = "team"
    /\ agent_ids # <<>> /\ team_file
    /\ Register("teams", team_name, get, post)
    /\ reg_pc' = "done"
    /\ UNCHANGED <<run_start, gallery, team_file, participants, reg_run, reg_model_id, agent_ids,
                   reg_idx>>
    /\ UNCHANGED notRegVars

\* main: no agent id or no team.json, no team is registered
RegNoTeam ==
    /\ reg_pc = "team"
    /\ ~(agent_ids # <<>> /\ team_file)
    /\ reg_pc' = "done"
    /\ UNCHANGED <<components, run_start, gallery, team_file, participants, reg_run, reg_model_id,
                   agent_ids, reg_idx, reg_posts, gets_ok, reg_last>>
    /\ UNCHANGED notRegVars

\* the script is started again, against Studio as the run before left it
RegRunAgain ==
    /\ reg_pc = "done"
    /\ reg_run < MaxRuns
    /\ reg_run' = reg_run + 1
    /\ reg_pc' = "health"
    /\ reg_model_id' = NoId
    /\ agent_ids' = <<>>
    /\ reg_idx' = 0
    /\ reg_posts' = 0
    /\ reg_last' = NoCall
    /\ run_start' = components
    /\ UNCHANGED <<components, gallery, team_file, participants, gets_ok>>
    /\ UNCHANGED notRegVars

Statuses == {200, 500}

NextReg ==
    \/ RegHealthOk
    \/ \E db_ok \in BOOLEAN : RegUseDatabase(db_ok)
    \/ \E get \in Statuses, post \in Statuses : RegModel(get, post)
    \/ \E get \in Statuses, post \in Statuses : RegTestAgent(get, post)
    \/ \E get \in Statuses, post \in Statuses : RegParticipant(get, post)
    \/ RegParticipantsEnd
    \/ \E get \in Statuses, post \in Statuses : RegTeam(get, post)
    \/ RegNoTeam
    \/ RegRunAgain

\* the first run: Studio holds nothing, or the model and the test agent
InitRegVars ==
    /\ components \in {[models |-> <<>>, agents |-> <<>>, teams |-> <<>>],
                        [models |-> <<claude_model>>, agents |-> <<test_agent>>,
                         teams |-> <<>>]}
    /\ run_start = components
    /\ gallery = 0
    /\ team_file \in BOOLEAN
    /\ participants \in [1..NumParticipants -> ParticipantNames]
    /\ reg_run = 1
    /\ reg_pc = "health"
    /\ reg_model_id = NoId
    /\ agent_ids = <<>>
    /\ reg_idx = 0
    /\ reg_posts = 0
    /\ gets_ok = TRUE
    /\ reg_last = NoCall

InitReg ==
    /\ InitRegVars
    /\ IdleRetryVars /\ IdleLambdaVars /\ IdleCacheVars /\ IdleSyncVars
    /\ IdleCreateVars /\ IdleMainVars /\ IdleCollectorVars /\ IdleLaterVars

SpecReg == InitReg /\ [][NextReg]_vars

\* -------------------------------------------------- claims: registration

Count(listing, key) == Cardinality({k \in DOMAIN listing : listing[k] = key})
NoDuplicates ==
    \A resource \in {"models", "agents", "teams"} :
        \A k \in DOMAIN components[resource] :
            Count(components[resource], components[resource][k]) = 1

\* Studio held, when the run started, everything the run registers
CompleteAtStart ==
    /\ claude_model \in Range(run_start.models)
    /\ test_agent \in Range(run_start.agents)
    /\ team_file =>
          /\ Range(participants) \subseteq Range(run_start.agents)
          /\ team_name \in Range(run_start.teams)

\* C11: a register_* call whose GET lists a component with the same model
\* string (models) or name (agents, teams) sends no POST and returns the id of
\* the listed component; so, with Studio answering the listings and keeping
\* what was POSTed, no run creates a second component of the same key, and a
\* run against a Studio that holds everything sends no POST and creates nothing.
C11_RegistrationIdempotent ==
    /\ (reg_last.get = 200 /\ reg_last.present) =>
          /\ ~reg_last.posted
          /\ reg_last.id # NoId
          /\ components[reg_last.resource][reg_last.id] = reg_last.key
    /\ gets_ok => NoDuplicates
    /\ (gets_ok /\ CompleteAtStart) => (reg_posts = 0 /\ components = run_start)

\* the second run found the model, the test agent, the participant and the team
\* the first run had registered, and sent no POST
C11_Witness ==
    /\ reg_run = 2
    /\ reg_pc = "done"
    /\ gets_ok
    /\ components = [models |-> <<claude_model>>, agents |-> <<test_agent, "analyst">>,
                      teams |-> <<team_name>>]
    /\ reg_last = [resource |-> "teams", key |-> team_name, get |-> 200,
                    present |-> TRUE, posted |-> FALSE, id |-> 1]
    /\ reg_posts = 0
    /\ agent_ids = <<1, 2>>

\* ------------------------- studio/sync_monitor_dashboard.py MetricsCollector

\* "self.max_history = 100"
max_history == 100

\* "self.x_metrics.append(metrics)", then "if len(self.x_metrics) >
\* self.max_history: self.x_metrics.pop(0)"
AppendCappedPopsLast(history, m) ==
    IF Len(history) + 1 > max_history THEN history ELSE Append(history, m)
AppendCapped(history, m) ==
    IF Len(Append(history, m)) > max_history
      THEN Tail(Append(history, m))
      ELSE Append(history, m)

\* the n-th measurement collected: its timestamp tells the arrivals apart
Measurement(n) == [timestamp |-> n]

\* add_system_metrics(metrics)
AddSystemMetrics ==
    /\ system_added < MaxAdded
    /\ system_added' = system_added + 1
    /\ system_metrics' = AppendCapped(system_metrics, Measurement(system_added'))
    /\ UNCHANGED <<studio_metrics, studio_added>>
    /\ UNCHANGED notCollectorVars

\* add_studio_metrics(metrics)
AddStudioMetrics ==
    /\ studio_added < MaxAdded
    /\ studio_added' = studio_added + 1
    /\ studio_metrics' = AppendCapped(studio_metrics, Measurement(studio_added'))
    /\ UNCHANGED <<system_metrics, system_added>>
    /\ UNCHANGED notCollectorVars

NextCollector == AddSystemMetrics \/ AddStudioMetrics

InitCollector ==
    /\ IdleCollectorVars
    /\ IdleRetryVars /\ IdleLambdaVars /\ IdleCacheVars /\ IdleSyncVars
    /\ IdleCreateVars /\ IdleMainVars /\ IdleRegVars /\ IdleLaterVars

SpecCollector == InitCollector /\ [][NextCollector]_vars

\* ------------------------------------------------------ claims: collector

\* history holds the last entries of "added" arrivals, oldest first
MostRecent(history, added) ==
    /\ Len(history) = IF added < 100 THEN added ELSE 100
    /\ \A k \in 1..Len(history) :
          history[k] = [timestamp |-> added - Len(history) + k]

\* C12: after any sequence of add_system_metrics and add_studio_metrics calls
\* each history list holds at most 100 entries, and they are the most recently
\* added ones in arrival order: the oldest entry is the one evicted.
C12_HistoryCapped ==
    /\ Len(system_metrics) <= 100
    /\ Len(studio_metrics) <= 100
    /\ MostRecent(system_metrics, system_added)
    /\ MostRecent(studio_metrics, studio_added)

\* 102 system measurements were added: the list holds the 3rd to the 102nd
C12_Witness ==
    /\ system_added = 102
    /\ Len(system_metrics) = 100
    /\ system_metrics[1].timestamp = 3
    /\ system_metrics[100].timestamp = 102
    /\ studio_added = 101
    /\ studio_metrics[1].timestamp = 2

\* --------------------- sync_monitor_dashboard.py MonitoringDashboard

\* the loop body is entered at most this many times
MaxIterations == 3

\* the statements of the try block of collect_metrics_loop
TryBlock == {"collect", "add_system", "add_studio", "alerts", "render", "sleep"}

\* where control goes after the except block
AfterExceptEnds == "ended"
AfterExcept == "test"

\* run(): "self.running = True", then "await self.collect_metrics_loop()"
DashRun ==
    /\ loop_pc = "run"
    /\ running' = TRUE
    /\ loop_pc' = "test"
    /\ UNCHANGED <<iteration, errors>>
    /\ UNCHANGED <<collectorVars, notDashVars>>

\* "while self.running:"
LoopTest ==
    /\ loop_pc = "test"
    /\ running => iteration < MaxIterations
    /\ IF running
         THEN /\ iteration' = iteration + 1
              /\ loop_pc' = "collect"
         ELSE /\ iteration' = iteration
              /\ loop_pc' = "ended"
    /\ UNCHANGED <<running, errors>>
    /\ UNCHANGED <<collectorVars, notDashVars>>

\* collect_system_metrics() and collect_studio_metrics() return
LoopCollects ==
    /\ loop_pc = "collect"
    /\ loop_pc' = "add_system"
    /\ UNCHANGED <<running, iteration, errors>>
    /\ UNCHANGED <<collectorVars, notDashVars>>

\* "self.metrics_collector.add_system_metrics(system_metrics)"
LoopAddsSystem ==
    /\ loop_pc = "add_system"
    /\ system_added' = system_added + 1
    /\ system_metrics' = AppendCapped(system_metrics, Measurement(system_added'))
    /\ loop_pc' = "add_studio"
    /\ UNCHANGED <<running, iteration, errors, studio_metrics, studio_added>>
    /\ UNCHANGED notDashVars

\* "self.metrics_collector.add_studio_metrics(studio_metrics)"
LoopAddsStudio ==
    /\ loop_pc = "add_studio"
    /\ studio_added' = studio_added + 1
    /\ studio_metrics' = AppendCapped(studio_metrics, Measurement(studio_added'))
    /\ loop_pc' = "alerts"
    /\ UNCHANGED <<running, iteration, errors, system_metrics, system_added>>
    /\ UNCHANGED notDashVars

\* check_alerts(...) returns
LoopChecksAlerts ==
    /\ loop_pc = "alerts"
    /\ loop_pc' = "render"
    /\ UNCHANGED <<running, iteration, errors>>
    /\ UNCHANGED <<collectorVars, notDashVars>>

\* render_dashboard() returns
LoopRenders ==
    /\ loop_pc = "render"
    /\ loop_pc' = "sleep"
    /\ UNCHANGED <<running, iteration, errors>>
    /\ UNCHANGED <<collectorVars, notDashVars>>

\* "await asyncio.sleep(self.refresh_interval)" returns
LoopSleeps ==
    /\ loop_pc = "sleep"
    /\ loop_pc' = "test"
    /\ UNCHANGED <<running, iteration, errors>>
    /\ UNCHANGED <<collectorVars, notDashVars>>

\* a statement of the try block raises an Exception
LoopRaises ==
    /\ loop_pc \in TryBlock
    /\ loop_pc' = "except"
    /\ UNCHANGED <<running, iteration, errors>>
    /\ UNCHANGED <<collectorVars, notDashVars>>

\* "except Exception as e": logger.error, "await asyncio.sleep(1)"
LoopHandles ==
    /\ loop_pc = "except"
    /\ errors' = errors + 1
    /\ loop_pc' = AfterExcept
    /\ UNCHANGED <<running, iteration>>
    /\ UNCHANGED <<collectorVars, notDashVars>>

\* shutdown(signum, frame) on SIGINT or SIGTERM: "self.running = False", then
\* sys.exit(0), whose SystemExit no "except Exception" catches
Shutdown ==
    /\ loop_pc \notin {"idle", "ended", "exited"}
    /\ running' = FALSE
    /\ loop_pc' = "exited"
    /\ UNCHANGED <<iteration, errors>>
    /\ UNCHANGED <<collectorVars, notDashVars>>

NextLoop ==
    \/ DashRun
    \/ LoopTest
    \/ LoopCollects
    \/ LoopAddsSystem
    \/ LoopAddsStudio
    \/ LoopChecksAlerts
    \/ LoopRenders
    \/ LoopSleeps
    \/ LoopRaises
    \/ LoopHandles

NextDash == NextLoop \/ Shutdown

\* MonitoringDashboard.__init__, and run() about to start the loop
InitDash ==
    /\ running = FALSE
    /\ loop_pc = "run"
    /\ iteration = 0
    /\ errors = 0
    /\ IdleCollectorVars
    /\ IdleRetryVars /\ IdleLambdaVars /\ IdleCacheVars /\ IdleSyncVars /\ IdleCreateVars
    /\ IdleMainVars /\ IdleRegVars
    /\ IdleScanVars /\ IdleMonitorVars /\ IdleImportVars

SpecDash == InitDash /\ [][NextDash]_vars

\* the event loop keeps running the coroutine; signals are the environment's
FairSpecDash == SpecDash /\ WF_vars(NextLoop)

\* C25: collect_metrics_loop iterates as long as running is true: an exception
\* raised in an iteration is followed by a further iteration, the metrics
\* stored in that iteration are kept, and the loop ends only when running is
\* false or the process exits.
C25_LoopSurvivesExceptions ==
    /\ [](loop_pc = "ended" => ~running)
    /\ \A n \in 1..(MaxIterations - 1) :
          (loop_pc = "except" /\ iteration = n) ~> (iteration = n + 1 \/ loop_pc = "exited")
    /\ [][(loop_pc = "except" \/ loop_pc' = "except") =>
              UNCHANGED <<system_metrics, studio_metrics>>]_vars

\* the first iteration stored its metrics and then raised; the error was
\* logged and the second iteration has begun with the metrics in place
C25_Witness ==
    /\ running
    /\ iteration = 2
    /\ loop_pc = "collect"
    /\ errors = 1
    /\ system_metrics = <<Measurement(1)>>
    /\ studio_metrics = <<Measurement(1)>>

\* ------------------------- studio/import_claude_team.py insert_team_to_db

\* the script is run at most this many times
MaxImports == 2

\* the team table holds at most this many rows before the first run
MaxExisting == 1

NothingPending == [team |-> <<>>, gallery |-> <<>>]

\* "except Exception as e: ... return False"; the connection is dropped with
\* its uncommitted inserts
InsertFails ==
    /\ insert_result' = FALSE
    /\ insert_pc' = "returned"
    /\ pending' = NothingPending

\* "if not db_path.exists(): ... return False"
DbMissing ==
    /\ insert_pc = "start"
    /\ ~db_exists
    /\ insert_result' = FALSE
    /\ insert_pc' = "returned"
    /\ UNCHANGED <<db_exists, gallery_table, team_rows, gallery_rows, pending, team_id,
                   rows_before, import_run>>
    /\ UNCHANGED notImportVars

\* "conn = sqlite3.connect(db_path)"
Connect(raised) ==
    /\ insert_pc = "start"
    /\ db_exists
    /\ IF raised
         THEN InsertFails
         ELSE /\ insert_pc' = "insert_team"
              /\ UNCHANGED <<insert_result, pending>>
    /\ UNCHANGED <<db_exists, gallery_table, team_rows, gallery_rows, team_id, rows_before,
                   import_run>>
    /\ UNCHANGED notImportVars

\* "INSERT INTO team ...": the new row gets the next id
InsertTeam(raised) ==
    /\ insert_pc = "insert_team"
    /\ IF raised
         THEN InsertFails
         ELSE /\ pending' = [pending EXCEPT !.team = <<Len(team_rows) + 1>>]
              /\ insert_pc' = "commit_team"
              /\ UNCHANGED insert_result
    /\ UNCHANGED <<db_exists, gallery_table, team_rows, gallery_rows, team_id, rows_before,
                   import_run>>
    /\ UNCHANGED notImportVars

\* the first "conn.commit()", then "team_id = cursor.lastrowid"
CommitTeam(raised) ==
    /\ insert_pc = "commit_team"
    /\ IF raised
         THEN /\ InsertFails
              /\ UNCHANGED <<team_rows, team_id>>
         ELSE /\ team_rows' = team_rows \o pending.team
              /\ team_id' = pending.team[1]
              /\ pending' = NothingPending
              /\ insert_pc' = "insert_gallery"
              /\ UNCHANGED insert_result
    /\ UNCHANGED <<db_exists, gallery_table, gallery_rows, rows_before, import_run>>
    /\ UNCHANGED notImportVars

\* "INSERT INTO gallery ...", with the id claude_team_<team_id>
InsertGallery(raised) ==
    /\ insert_pc = "insert_gallery"
    /\ IF raised \/ ~gallery_table
         THEN InsertFails
         ELSE /\ pending' = [pending EXCEPT !.gallery = <<team_id>>]
              /\ insert_pc' = "commit_gallery"
              /\ UNCHANGED insert_result
    /\ UNCHANGED <<db_exists, gallery_table, team_rows, gallery_rows, team_id, rows_before,
                   import_run>>
    /\ UNCHANGED notImportVars

\* the second "conn.commit()"
CommitGallery(raised) ==
    /\ insert_pc = "commit_gallery"
    /\ IF raised
         THEN /\ InsertFails
              /\ UNCHANGED gallery_rows
         ELSE /\ gallery_rows' = gallery_rows \o pending.gallery
              /\ pending' = NothingPending
              /\ insert_pc' = "close"
              /\ UNCHANGED insert_result
    /\ UNCHANGED <<db_exists, gallery_table, team_rows, team_id, rows_before, import_run>>
    /\ UNCHANGED notImportVars

\* "conn.close()", "return True"
CloseReturns ==
    /\ insert_pc = "close"
    /\ insert_result' = TRUE
    /\ insert_pc' = "returned"
    /\ UNCHANGED <<db_exists, gallery_table, team_rows, gallery_rows, pending, team_id,
                   rows_before, import_run>>
    /\ UNCHANGED notImportVars

\* the script is run again
ImportAgain ==
    /\ insert_pc = "returned"
    /\ import_run < MaxImports
    /\ import_run' = import_run + 1
    /\ rows_before' = [team |-> team_rows, gallery |-> gallery_rows]
    /\ insert_pc' = "start"
    /\ UNCHANGED <<db_exists, gallery_table, team_rows, gallery_rows, pending, team_id,
                   insert_result>>
    /\ UNCHANGED notImportVars

NextImport ==
    \/ DbMissing
    \/ \E raised \in BOOLEAN : Connect(raised)
    \/ \E raised \in BOOLEAN : InsertTeam(raised)
    \/ \E raised \in BOOLEAN : CommitTeam(raised)
    \/ \E raised \in BOOLEAN : InsertGallery(raised)
    \/ \E raised \in BOOLEAN : CommitGallery(raised)
    \/ CloseReturns
    \/ ImportAgain

\* the database is missing, or holds a team table with some rows and perhaps
\* a gallery table
InitImport ==
    /\ db_exists \in BOOLEAN
    /\ gallery_table \in BOOLEAN
    /\ \E n \in 0..MaxExisting : team_rows = [k \in 1..n |-> k]
    /\ gallery_rows = <<>>
    /\ pending = NothingPending
    /\ team_id = 0
    /\ insert_pc = "start"
    /\ insert_result = FALSE
    /\ rows_before = [team |-> team_rows, gallery |-> gallery_rows]
    /\ import_run = 1
    /\ IdleEarlyVars /\ IdleScanVars /\ IdleMonitorVars /\ IdleDashVars

SpecImport == InitImport /\ [][NextImport]_vars

\* C26: insert_team_to_db is all-or-nothing: after it returned False the
\* database holds neither the new team row nor the new gallery row, and after
\* it returned True it holds both.
C26_InsertAllOrNothing ==
    insert_pc = "returned" =>
        IF insert_result
          THEN /\ Len(team_rows) = Len(rows_before.team) + 1
               /\ Len(gallery_rows) = Len(rows_before.gallery) + 1
          ELSE /\ team_rows = rows_before.team
               /\ gallery_rows = rows_before.gallery

====
